---- MODULE Spec2Model ----
(***************************************************************************)
(* A model of the knowledge-evolution subsystem of a2a-agent-builder:      *)
(* the reasoning memory, verifier and engine (src/lib/logicalReasoning.ts),*)
(* the intent classifier (src/lib/intentClassifier.ts), the thinking       *)
(* evolution (src/lib/gpt5Manager.ts, lines 103-307), the update-memory   *)
(* and evolve-thinking routes and the converse operation of the agent      *)
(* executor over the agent store.                                          *)
(*                                                                         *)
(* Strings of the program are strings here; "" is the falsy string.        *)
(* A Map or a Set of the program is a sequence in insertion order.         *)
(* Confidences are integers in thousandths (0.7 is 700).                   *)
(***************************************************************************)
EXTENDS Integers, Sequences, FiniteSets, TLC

VARIABLES
    memory,      \* SpecMem: a ThinkingMemory object
    memOp,       \* SpecMem: the last call made on it (history)
    verCall,     \* SpecVerify: the last LogicalVerifier.verify call (history)
    eng,         \* SpecEngine: a LogicalReasoningEngine and its evolve call
    store,       \* the agent store: the record of each agent id, and the id list
    now,         \* Date.now(), in milliseconds
    lastUpdateTime,                \* update-memory route: agentId -> time
    historyStore,                  \* DynamicAgentExecutor.historyStore
    lastEvolutionTime,             \* DynamicAgentExecutor.lastEvolutionTime
    lastIntentClassificationTime,  \* DynamicAgentExecutor.lastIntentClassificationTime
    tasks,       \* the requests being served, one per slot, with their locals
    background,  \* the evolutions started by execute and not awaited
    umLog,       \* history of update-memory: per agent the arrival of its last
                 \* non-skipped request and of its last skipped one, per
                 \* conversation the caring last persisted; and of execute:
                 \* per agent and context the intent its last classification
                 \* returned
    served,      \* the number of requests taken so far
    admitted,    \* the number of them that got past the checks of their route
    ticks,       \* the number of clock advances so far
    cls,         \* SpecClassify: the last classifyIntent call (history)
    gw,          \* SpecGateway: the GeminiAPIManager, its timers and its history
    sampleAgentInitialized,  \* agent route: the flag of ensureSampleAgent
    deleted,     \* history: the ids a DELETE removed and no deploy has set since
    snap         \* SpecSnapshot: the contexts getContext returned to a caller

engineVars == <<memory, memOp, verCall, eng>>

agentVars == <<store, now, lastUpdateTime, historyStore, lastEvolutionTime,
               lastIntentClassificationTime, tasks, background, umLog, served, admitted, ticks>>

routeVars == <<sampleAgentInitialized, deleted>>

libVars == <<cls, gw, sampleAgentInitialized, deleted, snap>>

vars == <<memory, memOp, verCall, eng, store, now, lastUpdateTime, historyStore,
          lastEvolutionTime, lastIntentClassificationTime, tasks, background,
          umLog, served, admitted, ticks, cls, gw, sampleAgentInitialized, deleted,
          snap>>

(***************************************************************************)
(* Sequence helpers                                                        *)
(***************************************************************************)
Range(s) == {s[i] : i \in 1..Len(s)}

Includes(s, x) == \E i \in 1..Len(s) : s[i] = x

RemoveAt(s, k) == [i \in 1..(Len(s) - 1) |-> IF i < k THEN s[i] ELSE s[i + 1]]

SeqsUpTo(S, n) == UNION {[1..k -> S] : k \in 0..n}

NoDuplicates(s) == \A i, j \in 1..Len(s) : s[i] = s[j] => i = j

(***************************************************************************)
(* ThinkingMemory  (src/lib/logicalReasoning.ts:32-149)                    *)
(***************************************************************************)
\* The facts the model draws propositions from.
Facts == {"f1", "f2"}

\* constructor(initialProposition?, maxPaths = 3): the default of maxPaths.
maxPaths == 3

\* confidence: 1.0 of the constructor's path, in thousandths.
SeedConfidence == 1000

\* confidence: 0.5 of a path made by createNewPath, in thousandths.
NewPathConfidence == 500

\* new ThinkingMemory(initialProposition): a path 'path-1' only when the
\* proposition is a non-empty string.
NewThinkingMemory(initialProposition) ==
    IF initialProposition # ""
    THEN [paths |-> << [id |-> 1, propositions |-> <<initialProposition>>,
                        confidence |-> SeedConfidence] >>,
          facts |-> <<initialProposition>>]
    ELSE [paths |-> <<>>, facts |-> <<>>]

SetPush(s, x) == Append(s, x)

\* Set.add: appends unless present.
SetAdd(s, x) == IF Includes(s, x) THEN s ELSE Append(s, x)

\* addPropositionToPath: push unless the path is missing or holds it.
AddPropositionToPath(m, pathId, proposition) ==
    [m EXCEPT !.paths =
        [i \in 1..Len(m.paths) |->
            IF m.paths[i].id = pathId /\ ~Includes(m.paths[i].propositions, proposition)
            THEN [m.paths[i] EXCEPT !.propositions = Append(@, proposition)]
            ELSE m.paths[i]]]

\* addVerifiedFact: add to the shared set, push to every path not holding it.
AddVerifiedFact(m, fact) ==
    [paths |-> [i \in 1..Len(m.paths) |->
                    IF Includes(m.paths[i].propositions, fact)
                    THEN m.paths[i]
                    ELSE [m.paths[i] EXCEPT !.propositions = Append(@, fact)]],
     facts |-> SetAdd(m.facts, fact)]

\* The loop of createNewPath: the first path, in Map order, whose confidence is
\* below every earlier one's (strict <, so the first of the lowest wins).
LowestConfidenceIndex(paths) ==
    CHOOSE k \in 1..Len(paths) :
        /\ \A j \in 1..Len(paths) : paths[k].confidence <= paths[j].confidence
        /\ \A j \in 1..(k - 1) : paths[j].confidence > paths[k].confidence

\* Map.set: replaces the value of an existing key in place, else appends.
MapSet(paths, p) ==
    IF \E i \in 1..Len(paths) : paths[i].id = p.id
    THEN [i \in 1..Len(paths) |-> IF paths[i].id = p.id THEN p ELSE paths[i]]
    ELSE Append(paths, p)

\* The id createNewPath gives: `path-${this.searchPaths.size + 1}`, taken
\* before the eviction.
NewPathId(paths) == Len(paths) + 1

\* The paths left after createNewPath's eviction step.
AfterEviction(paths) ==
    IF Len(paths) >= maxPaths /\ Len(paths) > 0
    THEN RemoveAt(paths, LowestConfidenceIndex(paths))
    ELSE paths

\* createNewPath(basePropositions): returns the memory and the id.
CreateNewPath(m, basePropositions) ==
    LET pathId == NewPathId(m.paths)
        kept   == AfterEviction(m.paths)
    IN  [mem |-> [m EXCEPT !.paths =
                    MapSet(kept, [id |-> pathId, propositions |-> basePropositions,
                                  confidence |-> NewPathConfidence])],
         id  |-> pathId]

(***************************************************************************)
(* LogicalVerifier.verify  (src/lib/logicalReasoning.ts:289-347)           *)
(*                                                                         *)
(* A model response is either a failed call or a text.  Of the text the    *)
(* model keeps what the three patterns of verify look at: the token after  *)
(* "VERDICT:", the characters after "CONFIDENCE:" and the text after       *)
(* "REASON:" ("" or <<>> where the response has no such line).             *)
(***************************************************************************)
Digits == {"0", "1", "2", "3", "4", "5", "6", "7", "8", "9"}

DigitValue(c) ==
    CASE c = "0" -> 0 [] c = "1" -> 1 [] c = "2" -> 2 [] c = "3" -> 3 [] c = "4" -> 4
      [] c = "5" -> 5 [] c = "6" -> 6 [] c = "7" -> 7 [] c = "8" -> 8 [] c = "9" -> 9

\* The tokens a response may carry after "VERDICT:".
VerdictTokens == {"VALID", "valid", "INVALID", "Invalid", "UNCERTAIN", "MAYBE", ""}

\* String.toUpperCase on the verdict tokens.
ToUpperCase(t) ==
    CASE t = "valid" -> "VALID"
      [] t = "Invalid" -> "INVALID"
      [] OTHER -> t

\* text.match(/VERDICT:\s*(VALID|INVALID|UNCERTAIN)/i): the captured token as
\* written, "" when there is no match.
VerdictMatch(token) ==
    IF ToUpperCase(token) \in {"VALID", "INVALID", "UNCERTAIN"} THEN token ELSE ""

\* The length of the run of digits of s that starts at position k.
RECURSIVE DigitRun(_, _)
DigitRun(s, k) ==
    IF k <= Len(s) /\ s[k] \in Digits THEN 1 + DigitRun(s, k + 1) ELSE 0

\* text.match(/CONFIDENCE:\s*(0?\.\d+|1\.0|0|1)/): the capture within the
\* characters s that follow "CONFIDENCE:", <<>> when there is no match.  The
\* alternatives are tried in order; \d+ is greedy.
ConfidenceMatch(s) ==
    IF Len(s) >= 3 /\ s[1] = "0" /\ s[2] = "." /\ DigitRun(s, 3) >= 1
        THEN SubSeq(s, 1, 2 + DigitRun(s, 3))
    ELSE IF Len(s) >= 2 /\ s[1] = "." /\ DigitRun(s, 2) >= 1
        THEN SubSeq(s, 1, 1 + DigitRun(s, 2))
    ELSE IF Len(s) >= 3 /\ s[1] = "1" /\ s[2] = "." /\ s[3] = "0"
        THEN SubSeq(s, 1, 3)
    ELSE IF Len(s) >= 1 /\ s[1] = "0" THEN <<"0">>
    ELSE IF Len(s) >= 1 /\ s[1] = "1" THEN <<"1">>
    ELSE <<>>

\* The k-th digit after the point of a capture, 0 when it has none.
FractionDigit(c, point, k) ==
    IF point + k <= Len(c) THEN DigitValue(c[point + k]) ELSE 0

\* parseFloat of a capture of ConfidenceMatch, in thousandths, rounded down
\* (which keeps every comparison with 0.7 as it is).
ParseFloat(c) ==
    LET point == IF c[1] = "." THEN 1 ELSE IF Len(c) >= 2 /\ c[2] = "." THEN 2 ELSE 0
        whole == IF c[1] = "." THEN 0 ELSE DigitValue(c[1])
    IN  IF point = 0 THEN 1000 * whole
        ELSE 1000 * whole + 100 * FractionDigit(c, point, 1)
             + 10 * FractionDigit(c, point, 2) + FractionDigit(c, point, 3)

\* confidenceMatch ? parseFloat(confidenceMatch[1]) : 0.5
DefaultConfidence == 500

\* The confidence a proposition needs to be admitted: 0.7.
ConfidenceThreshold == 700

ParsedVerdictDefaultValid(text) ==
    IF VerdictMatch(text.verdict) # "" THEN ToUpperCase(VerdictMatch(text.verdict))
    ELSE "VALID"

\* const verdict = verdictMatch ? verdictMatch[1].toUpperCase() : 'UNCERTAIN'
ParsedVerdict(text) ==
    IF VerdictMatch(text.verdict) # "" THEN ToUpperCase(VerdictMatch(text.verdict))
    ELSE "UNCERTAIN"

ParsedConfidence(text) ==
    IF ConfidenceMatch(text.confidence) # <<>>
    THEN ParseFloat(ConfidenceMatch(text.confidence))
    ELSE DefaultConfidence

ParsedReason(text) == IF text.reason # "" THEN text.reason ELSE "Unable to determine"

AdmitAboveThresholdOnly(verdict, confidence) ==
    verdict = "VALID" /\ confidence > ConfidenceThreshold

\* const valid = verdict === 'VALID' && confidence >= 0.7
Admit(verdict, confidence) == verdict = "VALID" /\ confidence >= ConfidenceThreshold

\* verify(memoryContext, proposition), given what the model call does.
Verify(response) ==
    IF response.kind = "throw"
    THEN [valid |-> FALSE, confidence |-> 0, reason |-> "Verification failed",
          verdict |-> ""]
    ELSE [valid |-> Admit(ParsedVerdict(response), ParsedConfidence(response)),
          confidence |-> ParsedConfidence(response),
          reason |-> ParsedReason(response),
          verdict |-> ParsedVerdict(response)]

Chars(a, b, c, d) == SelectSeq(<<a, b, c, d>>, LAMBDA x : x # "")

\* What the responses of the model carry after "CONFIDENCE:".
ConfidenceTexts ==
    { <<>>, Chars("0", ".", "6", "9"), Chars("0", ".", "7", "0"), Chars("0", ".", "7", ""),
      Chars("0", ".", "9", ""), Chars("1", ".", "0", ""), Chars("1", "", "", ""),
      Chars("0", "", "", ""), Chars(".", "7", "5", ""), Chars("0", ".", "5", ""),
      Chars("1", ".", "5", ""), Chars("7", "", "", ""), Chars("0", ".", "0", "7"),
      Chars(".", "6", "9", "9") }

VerifierResponses ==
    {[kind |-> "throw"]} \cup
    [kind : {"text"}, verdict : VerdictTokens, confidence : ConfidenceTexts,
     reason : {"", "follows"}]

(***************************************************************************)
(* Fact text  (exportFacts / fromFacts, src/lib/logicalReasoning.ts:134-148)*)
(*                                                                         *)
(* A text is the sequence of its lines: "" is <<"">>, "a\nb" is            *)
(* <<"a", "b">>.  The facts of the model hold no newline.                  *)
(***************************************************************************)
EmptyText == <<"">>

\* The sentinel '(empty)' of a knowledge map that has no text for a key.
EmptySentinel == <<"(empty)">>

\* Array.join('\n'): the empty array gives "".
Join(lines) == IF lines = <<>> THEN EmptyText ELSE lines

\* String.split('\n')
Split(text) == text

\* String.trim on the lines and texts of the model.
Trim(line) ==
    CASE line = " " -> ""
      [] line = " p0 " -> "p0"
      [] OTHER -> line

\* exportFacts(): Array.from(sharedVerifiedFacts).join('\n')
ExportFacts(m) == Join(m.facts)

RECURSIVE AddAllFactsLastFirst(_, _)
AddAllFactsLastFirst(m, facts) ==
    IF facts = <<>> THEN m
    ELSE AddVerifiedFact(AddAllFactsLastFirst(m, Tail(facts)), Head(facts))

\* for (const fact of facts) memory.addVerifiedFact(fact)
RECURSIVE AddAllFacts(_, _)
AddAllFacts(m, facts) ==
    IF facts = <<>> THEN m
    ELSE AddAllFacts(AddVerifiedFact(m, Head(facts)), Tail(facts))

\* fromFacts(factsString)
FromFacts(factsString) ==
    IF factsString # EmptyText /\ factsString # EmptySentinel
    THEN AddAllFacts(NewThinkingMemory(""),
                     SelectSeq(Split(factsString), LAMBDA f : Trim(f) # ""))
    ELSE NewThinkingMemory("")

\* getContext(): copies of the shared facts and of every path.
GetContext(m) == [sharedFacts |-> m.facts, paths |-> m.paths]

(***************************************************************************)
(* ReasoningPrompt  (src/lib/logicalReasoning.ts:157-273)                  *)
(***************************************************************************)
\* generateNextPropositions, given what the model call does: it throws, its
\* text holds no bracketed array, or the array parses to a list of strings.
GenerateNextPropositions(response) ==
    IF response.kind = "json" THEN response.propositions ELSE <<>>

\* generateInitialProposition(intent, conversationContext)
GenerateInitialProposition(intent, response) ==
    IF response.kind = "throw" THEN "Core concept: " \o intent
    ELSE Trim(response.text)

(***************************************************************************)
(* LogicalReasoningEngine  (src/lib/logicalReasoning.ts:355-456)           *)
(***************************************************************************)
\* constructor(modelName, initialKnowledge?, domain?): initialKnowledge is a
\* text, EmptyText when it is undefined or "".
NewEngineMemory(initialKnowledge) ==
    IF initialKnowledge # EmptyText THEN FromFacts(initialKnowledge)
    ELSE NewThinkingMemory("")

VerifyContextCurrent(context, mem) == GetContext(mem)

\* this.verifier.verify(context, proposition): the context a candidate is
\* verified against is the `context` of the cycle, whatever the memory has
\* become since.
VerifyContext(context, mem) == context

\* The loop over the candidates of runCycle: verify each against `context`,
\* admit the valid ones.  acc = [mem, factsAdded, verified].
RECURSIVE VerifyAndAdd(_, _, _, _)
VerifyAndAdd(acc, context, candidates, responses) ==
    IF candidates = <<>> THEN acc
    ELSE LET verification == Verify(Head(responses))
             next == [mem |-> IF verification.valid
                              THEN AddVerifiedFact(acc.mem, Head(candidates))
                              ELSE acc.mem,
                      factsAdded |-> IF verification.valid THEN acc.factsAdded + 1
                                     ELSE acc.factsAdded,
                      verified |-> Append(acc.verified,
                                     [candidate |-> Head(candidates),
                                      context |-> VerifyContext(context, acc.mem),
                                      valid |-> verification.valid,
                                      knownBefore |-> Includes(acc.mem.facts, Head(candidates))])]
         IN  VerifyAndAdd(next, context, Tail(candidates), Tail(responses))

ColdStartWithoutFactCheck(context, conversationContext) == conversationContext # ""

\* if (context.sharedFacts.length === 0 && conversationContext)
ColdStart(context, conversationContext) ==
    Len(context.sharedFacts) = 0 /\ conversationContext # ""

\* runCycle(intent, conversationContext), given what the model calls of the
\* cycle do: o.init (initial proposition), o.gen (candidates), o.ver (one
\* response per candidate).  Returns the memory, the result of the cycle and
\* a record of the calls it made.
\* allFailed of the record tells that every model call of the cycle threw.
RunCycle(m, intent, conversationContext, o) ==
    LET context    == GetContext(m)
        coldStart  == ColdStart(context, conversationContext)
        initial    == GenerateInitialProposition(intent, o.init)
        m1         == IF coldStart THEN AddVerifiedFact(m, initial) ELSE m
        candidates == GenerateNextPropositions(o.gen)
        failed     == /\ coldStart => o.init.kind = "throw"
                      /\ o.gen.kind = "throw"
                      /\ \A j \in DOMAIN o.ver : o.ver[j].kind = "throw"
        done       == VerifyAndAdd([mem |-> m1, factsAdded |-> 0, verified |-> <<>>],
                                   context, candidates, o.ver)
    IN  IF Len(candidates) = 0
        THEN [mem |-> m1, factsAdded |-> 0, totalFacts |-> Len(context.sharedFacts),
              round |-> [initial |-> IF coldStart THEN <<initial>> ELSE <<>>,
                         genContext |-> context, factsAtGenerate |-> m1.facts,
                         allFailed |-> failed,
                         candidates |-> candidates,
                         verified |-> <<>>, factsAdded |-> 0,
                         sizeBefore |-> Len(m.facts), sizeAfter |-> Len(m1.facts)]]
        ELSE [mem |-> done.mem, factsAdded |-> done.factsAdded,
              totalFacts |-> Len(GetContext(done.mem).sharedFacts),
              round |-> [initial |-> IF coldStart THEN <<initial>> ELSE <<>>,
                         genContext |-> context, factsAtGenerate |-> m1.facts,
                         allFailed |-> failed,
                         candidates |-> candidates,
                         verified |-> done.verified, factsAdded |-> done.factsAdded,
                         sizeBefore |-> Len(m.facts), sizeAfter |-> Len(done.mem.facts)]]

\* An evolve call in progress: the engine's memory, the arguments, the loop
\* index i, whether the loop has taken its break, and the rounds run so far.
EvolveBegin(m, intent, cycles, conversationContext) ==
    [mem |-> m, intent |-> intent, cycles |-> cycles,
     conversationContext |-> conversationContext,
     i |-> 0, broke |-> FALSE, rounds |-> <<>>]

EvolveNeverBreaks(result) == FALSE

\* if (result.factsAdded === 0) break
EvolveBreaks(result) == result.factsAdded = 0

\* for (let i = 0; i < cycles; i++): whether another runCycle is to be run.
EvolveLoops(e) == e.i < e.cycles /\ ~e.broke

\* One iteration of the loop of evolve.
EvolveStep(e, o) ==
    LET result == RunCycle(e.mem, e.intent, e.conversationContext, o)
    IN  [e EXCEPT !.mem = result.mem,
                  !.rounds = Append(@, result.round),
                  !.broke = EvolveBreaks(result),
                  !.i = IF EvolveBreaks(result) THEN @ ELSE @ + 1]

\* return this.memory.exportFacts()
EvolveResult(e) == ExportFacts(e.mem)

(***************************************************************************)
(* What the model calls of one cycle may do                                *)
(***************************************************************************)
\* The longest candidate list the generator returns.
MaxCandidates == 2

InitialResponses ==
    {[kind |-> "throw"]} \cup [kind : {"text"}, text : {"p0", " p0 ", " "}]

GeneratorResponses ==
    {[kind |-> "throw"], [kind |-> "nojson"]} \cup
    [kind : {"json"}, propositions : SeqsUpTo(Facts, MaxCandidates)]

\* The verifier responses the cycles of the engine are run against.
CycleVerifierResponses ==
    {[kind |-> "throw"]} \cup
    [kind : {"text"}, verdict : {"VALID"},
     confidence : {<<"0", ".", "9">>, <<"0", ".", "6", "9">>}, reason : {"follows"}] \cup
    {[kind |-> "text", verdict |-> "UNCERTAIN", confidence |-> <<"0", ".", "9">>,
      reason |-> "follows"]}

\* The model calls of one runCycle on memory m: the initial proposition is
\* asked for only on a cold start, and one verification per candidate.
CycleOracles(m, conversationContext) ==
    UNION { { [init |-> init, gen |-> gen, ver |-> ver] :
                init \in IF ColdStart(GetContext(m), conversationContext)
                         THEN InitialResponses ELSE {[kind |-> "none"]},
                ver \in [1..Len(GenerateNextPropositions(gen)) -> CycleVerifierResponses] } :
            gen \in GeneratorResponses }

(***************************************************************************)
(* Agent store  (src/lib/agentStore.ts)                                    *)
(*                                                                         *)
(* The store holds, per agent id, the serialized record, and the set of    *)
(* agent ids.  A plain object (Record<string, T>) is the sequence of its   *)
(* [key, value] entries in insertion order; an absent map is <<>>.         *)
(***************************************************************************)
AgentIds == {"a1", "ghost"}

NoAgent ==
    [exists |-> FALSE, modelProvider |-> "", thinkingMemories |-> <<>>,
     caringMemories |-> <<>>, intentPatterns |-> <<>>]

\* The record a deploy stores: no knowledge maps yet.
DeployedAgent(modelProvider) ==
    [exists |-> TRUE, modelProvider |-> modelProvider, thinkingMemories |-> <<>>,
     caringMemories |-> <<>>, intentPatterns |-> <<>>]

ObjHas(obj, key) == \E i \in 1..Len(obj) : obj[i].key = key

\* obj[key] || fallback
ObjGet(obj, key, fallback) ==
    IF ObjHas(obj, key)
    THEN (CHOOSE e \in Range(obj) : e.key = key).value
    ELSE fallback

\* The integer a property name is the canonical numeral of (an array index),
\* -1 for every other name.
ArrayIndex(key) ==
    CASE key = "7" -> 7
      [] key = "42" -> 42
      [] OTHER -> -1

\* obj[key] = value, or { ...obj, [key]: value }.  The entries are kept in
\* the order Object.entries and JSON.stringify enumerate them: the array
\* indices in ascending order, then the other names in insertion order.
ObjSet(obj, key, value) ==
    IF ObjHas(obj, key)
    THEN [i \in 1..Len(obj) |-> IF obj[i].key = key THEN [key |-> key, value |-> value]
                                ELSE obj[i]]
    ELSE IF ArrayIndex(key) >= 0
    THEN LET before == Cardinality({i \in 1..Len(obj) :
                            ArrayIndex(obj[i].key) >= 0 /\
                            ArrayIndex(obj[i].key) < ArrayIndex(key)})
         IN  SubSeq(obj, 1, before) \o <<[key |-> key, value |-> value]>> \o
             SubSeq(obj, before + 1, Len(obj))
    ELSE Append(obj, [key |-> key, value |-> value])

\* Object.keys(obj)
ObjKeys(obj) == [i \in 1..Len(obj) |-> obj[i].key]

\* getAgent(agentId)
GetAgent(st, agentId) == st.agents[agentId]

\* setAgent(agentId, agent): redis.set of the record, redis.sadd of the id.
SetAgent(st, agentId, agent) ==
    [agents |-> [st.agents EXCEPT ![agentId] = agent],
     list   |-> st.list \cup {agentId}]

(***************************************************************************)
(* Intent classifier  (src/lib/intentClassifier.ts)                        *)
(*                                                                         *)
(* A conversation text is the sequence of its lines, a line being          *)
(* [role, words]: the line `${role}: ${words joined by spaces}`.           *)
(***************************************************************************)
\* String.toLowerCase on the words, labels and keywords of the model.
ToLowerCase(w) ==
    CASE w = "K1" -> "k1"
      [] w = "K2" -> "k2"
      [] w = "I1" -> "i1"
      [] w = "I2" -> "i2"
      [] OTHER -> w

\* lines.reverse().find(line => line.startsWith('user:')): 0 when none.
LastUserLine(conversationText) ==
    IF \E i \in 1..Len(conversationText) : conversationText[i].role = "user"
    THEN CHOOSE i \in 1..Len(conversationText) :
            /\ conversationText[i].role = "user"
            /\ \A j \in (i + 1)..Len(conversationText) : conversationText[j].role # "user"
    ELSE 0

\* lastMessageText.includes(keyword.toLowerCase()), on whole words.
LineIncludes(line, keyword) ==
    \E i \in 1..Len(line.words) : ToLowerCase(line.words[i]) = ToLowerCase(keyword)

\* The first entry of the table, in order, one of whose keywords the line holds.
FirstMatch(intentPatterns, line) ==
    IF \E i \in 1..Len(intentPatterns) :
            \E k \in 1..Len(intentPatterns[i].value) :
                LineIncludes(line, intentPatterns[i].value[k])
    THEN intentPatterns[
            CHOOSE i \in 1..Len(intentPatterns) :
                /\ \E k \in 1..Len(intentPatterns[i].value) :
                        LineIncludes(line, intentPatterns[i].value[k])
                /\ \A j \in 1..(i - 1) : \A k \in 1..Len(intentPatterns[j].value) :
                        ~LineIncludes(line, intentPatterns[j].value[k])].key
    ELSE ""

\* matchIntentFromPatterns(agentId, conversationText): "" for null.
MatchIntentFromPatterns(st, agentId, conversationText) ==
    LET agent == GetAgent(st, agentId)
        last  == LastUserLine(conversationText)
    IN  IF last = 0 THEN ""
        ELSE FirstMatch(agent.intentPatterns, conversationText[last])

\* Array.from(new Set(list)): the first occurrence of each element, in order.
RECURSIVE Dedupe(_)
Dedupe(list) ==
    IF list = <<>> THEN <<>>
    ELSE LET rest == Dedupe(SubSeq(list, 1, Len(list) - 1))
         IN  IF Includes(rest, list[Len(list)]) THEN rest
             ELSE Append(rest, list[Len(list)])

\* saveIntentPattern(agentId, intent, keywords): [store, written].
SaveIntentPattern(st, agentId, intent, keywords) ==
    LET agent == GetAgent(st, agentId)
        existingKeywords == ObjGet(agent.intentPatterns, intent, <<>>)
        allKeywords == Dedupe(existingKeywords \o keywords)
    IN  IF ~agent.exists THEN [store |-> st, written |-> FALSE]
        ELSE [store |-> SetAgent(st, agentId,
                          [agent EXCEPT !.intentPatterns = ObjSet(@, intent, allKeywords)]),
              written |-> TRUE]

\* saveIntentPattern from its setAgent on (lines 45-56), `agent` being the
\* record its getAgent returned: the record is written with the keywords
\* merged into its table, on whatever the store holds by then.
SaveIntentPatternWrite(st, agentId, agent, intent, keywords) ==
    IF ~agent.exists THEN st
    ELSE SetAgent(st, agentId,
            GetAgent(SaveIntentPattern(SetAgent(st, agentId, agent), agentId,
                                       intent, keywords).store, agentId))

\* intentMatch[1].trim().toLowerCase().replace(/\s+/g, '_')
NormalizeIntent(label) == ToLowerCase(label)

\* keywordString.split(',').map(k => k.trim().toLowerCase()).filter(k => k.length > 0)
ParseKeywords(keywords) ==
    SelectSeq([i \in 1..Len(keywords) |-> ToLowerCase(Trim(keywords[i]))],
              LAMBDA k : k # "")

\* classifyIntent(agentId, conversationText, previousIntent), given what the
\* model call does: it throws, or answers a text of which response.intent is
\* the capture of the INTENT line ("" without one) and response.keywords the
\* comma-separated items of the KEYWORDS line (<<>> without one).
ClassifyIntent(st, agentId, conversationText, response) ==
    LET matchedIntent == MatchIntentFromPatterns(st, agentId, conversationText)
        intent == NormalizeIntent(response.intent)
        saved  == SaveIntentPattern(st, agentId, intent, ParseKeywords(response.keywords))
    IN  IF matchedIntent # ""
        THEN [raised |-> FALSE, intent |-> matchedIntent, store |-> st,
              modelCalls |-> 0, writes |-> 0]
        ELSE IF response.kind = "throw"
        THEN [raised |-> TRUE, intent |-> "", store |-> st, modelCalls |-> 1, writes |-> 0]
        ELSE IF response.intent = ""
        THEN [raised |-> FALSE, intent |-> "general", store |-> st,
              modelCalls |-> 1, writes |-> 0]
        ELSE [raised |-> FALSE, intent |-> intent, store |-> saved.store,
              modelCalls |-> 1, writes |-> IF saved.written THEN 1 ELSE 0]

\* getThinkingMemory(agentId, intent)
GetThinkingMemory(st, agentId, intent) ==
    LET text == ObjGet(GetAgent(st, agentId).thinkingMemories, intent, EmptyText)
    IN  IF text # EmptyText THEN text ELSE EmptySentinel

\* getUserCaring(agentId, username)
GetUserCaring(st, agentId, username) ==
    LET text == ObjGet(GetAgent(st, agentId).caringMemories, username, EmptyText)
    IN  IF text # EmptyText THEN text ELSE EmptySentinel

\* getLastIntent(agentId): the last key of thinkingMemories, "" for undefined.
GetLastIntent(st, agentId) ==
    LET keys == ObjKeys(GetAgent(st, agentId).thinkingMemories)
    IN  IF Len(keys) > 0 THEN keys[Len(keys)] ELSE ""

(***************************************************************************)
(* evolveThinking  (src/lib/gpt5Manager.ts:126-201)                        *)
(***************************************************************************)
\* What evolveThinking returns from its catch block.
EvolveThinkingFailure ==
    [success |-> FALSE, previousThinking |-> EmptyText, newThinking |-> EmptyText,
     factsAdded |-> 0]

\* An evolveThinking call that has not started.
NoEvolveThinking ==
    [agentId |-> "", intent |-> "", agent |-> NoAgent, previousThinking |-> EmptyText,
     seedFacts |-> 0, call |-> EvolveBegin(NewThinkingMemory(""), "", 0, "")]

\* Lines 143-168: read the agent, take the thinking of the intent, build the
\* engine on it and enter evolve.  The agent is known to exist.
EvolveThinkingBegin(st, agentId, intent, conversationContext, cycles) ==
    LET agent == GetAgent(st, agentId)
        stored == ObjGet(agent.thinkingMemories, intent, EmptyText)
        previousThinking == IF stored # EmptyText THEN stored ELSE EmptySentinel
        mem == NewEngineMemory(IF previousThinking # EmptySentinel
                               THEN previousThinking ELSE EmptyText)
    IN  [agentId |-> agentId, intent |-> intent, agent |-> agent,
         previousThinking |-> previousThinking, seedFacts |-> Len(mem.facts),
         call |-> EvolveBegin(mem, intent, cycles, conversationContext)]

\* Lines 170-172: context.sharedFacts.length minus the lines of the previous text.
FactsAdded(et) ==
    Len(GetContext(et.call.mem).sharedFacts)
        - (IF et.previousThinking # EmptySentinel
           THEN Len(Split(et.previousThinking)) ELSE 0)

EvolveThinkingWriteMerged(st, et) ==
    SetAgent(st, et.agentId,
        [GetAgent(st, et.agentId) EXCEPT !.thinkingMemories =
            ObjSet(@, et.intent, EvolveResult(et.call))])

\* Lines 178-184: thinkingMemories[intent] = newThinking, then setAgent of the
\* agent as it was read at line 144 with that map.
EvolveThinkingWrite(st, et) ==
    SetAgent(st, et.agentId,
        [et.agent EXCEPT !.thinkingMemories =
            ObjSet(@, et.intent, EvolveResult(et.call))])

\* Lines 186-191: the result of a call that got through.
EvolveThinkingSuccess(et) ==
    [success |-> TRUE, previousThinking |-> et.previousThinking,
     newThinking |-> EvolveResult(et.call), factsAdded |-> FactsAdded(et)]

\* The model calls one round of runCycle made.
RoundModelCalls(round) == Len(round.initial) + 1 + Len(round.verified)

(***************************************************************************)
(* Requests, responses and the locals of a handler                         *)
(*                                                                         *)
(* A message is [role, words, context, intent]: the role, the words of its *)
(* text part, the memory context a system prompt carries (<<>> for none)   *)
(* and the intent of its metadata ("" for none).                           *)
(***************************************************************************)
Msg(role, words) == [role |-> role, words |-> words, context |-> <<>>, intent |-> ""]

\* array.slice(-n)
LastN(list, n) ==
    IF Len(list) <= n THEN list ELSE SubSeq(list, Len(list) - n + 1, Len(list))

\* conversationHistory.slice(-6), history.slice(-6)
HistoryWindow == 6

\* messages.map(msg => `${msg.role}: ${text}`).join('\n'), as its lines.
ConversationText(messages) ==
    [i \in 1..Len(messages) |-> [role |-> messages[i].role, words |-> messages[i].words]]

\* The conversation context handed to the engine: the joined text is the
\* empty string exactly when there is no line.
ContextOf(conversationText) == IF Len(conversationText) = 0 THEN "" ELSE "conversation"

\* The body and parameters of a request; a field a request does not carry
\* is "" (undefined), hasHistory tells whether conversationHistory is there.
NoRequest ==
    [agentId |-> "", contextId |-> "", hasHistory |-> FALSE, conversationHistory |-> <<>>,
     intent |-> "", username |-> "", conversationContext |-> "", cycles |-> 0,
     message |-> <<>>]

\* A response: NextResponse.json(body, {status}); status 200 when not given.
NoResponse ==
    [status |-> 0, error |-> "", success |-> FALSE, skipped |-> FALSE, waitTime |-> 0,
     intent |-> "", username |-> "", thinkingUpdated |-> FALSE, caringUpdated |-> FALSE,
     factsAdded |-> 0, thinking |-> EmptyText, caring |-> EmptyText]

ErrorResponse(status, error) == [NoResponse EXCEPT !.status = status, !.error = error]

\* History of the classifyIntent call a request made.
NoClassification ==
    [called |-> FALSE, raised |-> FALSE, kind |-> "", parsed |-> FALSE, intent |-> "",
     before |-> <<>>, after |-> <<>>]

\* The locals of a handler: op is the operation, pc the await it stands at.
IdleTask ==
    [op |-> "none", pc |-> "idle", req |-> NoRequest, agent |-> NoAgent,
     arrived |-> 0, prevServed |-> 0, turn |-> 0, repliedAt |-> 0,
     effectiveUsername |-> "", conversationText |-> <<>>, intent |-> "",
     keywords |-> <<>>,
     currentThinking |-> EmptyText, currentCaring |-> EmptyText,
     et |-> NoEvolveThinking, thinkingResult |-> EvolveThinkingFailure,
     newCaring |-> EmptyText, caringFacts |-> 0, cause |-> "",
     classification |-> NoClassification, loaded |-> FALSE,
     published |-> <<>>, finished |-> 0, sent |-> <<>>, reply |-> "",
     resp |-> NoResponse, writes |-> 0, modelCalls |-> 0]

\* `${this.agentId}-${contextId}`, `${this.agentId}-${intent}`
ContextKey(agentId, suffix) == agentId \o "-" \o suffix

\* Math.ceil(ms / 1000)
CeilSeconds(ms) == (ms + 999) \div 1000

\* The state of the routes and of the executor when no request was ever made
\* and no agent is deployed.
AgentIdle ==
    /\ store = [agents |-> [a \in AgentIds |-> NoAgent], list |-> {}]
    /\ now = 1
    /\ lastUpdateTime = <<>>
    /\ historyStore = <<>>
    /\ lastEvolutionTime = <<>>
    /\ lastIntentClassificationTime = <<>>
    /\ tasks = [s \in {1} |-> IdleTask]
    /\ background = <<>>
    /\ umLog = [arrival |-> [a \in AgentIds |-> 0], skipped |-> [a \in AgentIds |-> 0],
               caring |-> <<>>, classified |-> <<>>]
    /\ served = 0
    /\ admitted = 0
    /\ ticks = 0

(***************************************************************************)
(* GeminiAPIManager  (src/lib/llmManager.ts:128-307)                       *)
(*                                                                         *)
(* Times are kept relative to Date.now(): a recorded call time is the age  *)
(* now - time, a timer is the time left until it is due.  An age that has  *)
(* reached the window is kept at the window (it compares the same).        *)
(* A queued call is [id, priority]; ids are given in the order of the      *)
(* calls, so id order is timestamp order.                                  *)
(***************************************************************************)
MAX_LOW_PRIORITY_CALLS_PER_MINUTE == 3

RATE_LIMIT_WINDOW_MS == 60000

\* Math.max(waitTime, 1000)
MinimumWaitMs == 1000

NoCall == [id |-> 0, priority |-> "NONE"]

\* The manager after construction: an empty queue, nothing recorded.  timers
\* are the pending setTimeout callbacks of processQueue; inFlight is the call
\* executeCall is awaiting; lowBegins, begun, settled and calls are history:
\* the ages of the LOW executions begun within the last window, the calls in
\* the order in which their execution began, the ids whose promise is
\* settled, the number of calls made; busy is history too: a call of
\* processQueue has returned at its first line, the loop being active.
NewGateway ==
    [queue |-> <<>>, processing |-> FALSE, lowPriorityCallTimes |-> <<>>,
     timers |-> <<>>, inFlight |-> NoCall, lowBegins |-> <<>>, begun |-> <<>>,
     settled |-> {}, calls |-> 0, busy |-> FALSE]

\* cleanupOldCallTimes(): keeps the times with now - time < RATE_LIMIT_WINDOW_MS.
CleanupOldCallTimes(g) ==
    [g EXCEPT !.lowPriorityCallTimes = SelectSeq(@, LAMBDA age : age < RATE_LIMIT_WINDOW_MS)]

CanExecuteOneMore(g) ==
    Len(CleanupOldCallTimes(g).lowPriorityCallTimes) <= MAX_LOW_PRIORITY_CALLS_PER_MINUTE

\* canExecuteLowPriorityCall(), after its cleanup.
CanExecuteLowPriorityCall(g) ==
    Len(CleanupOldCallTimes(g).lowPriorityCallTimes) < MAX_LOW_PRIORITY_CALLS_PER_MINUTE

\* The greatest age of a sequence of ages: the age of Math.min(...times).
RECURSIVE OldestAge(_)
OldestAge(ages) ==
    IF ages = <<>> THEN 0
    ELSE IF Head(ages) >= OldestAge(Tail(ages)) THEN Head(ages) ELSE OldestAge(Tail(ages))

\* getWaitTimeForLowPriority()
GetWaitTimeForLowPriority(g) ==
    IF Len(g.lowPriorityCallTimes) = 0 THEN 0
    ELSE LET waitTime == RATE_LIMIT_WINDOW_MS - OldestAge(g.lowPriorityCallTimes)
         IN  IF waitTime >= MinimumWaitMs THEN waitTime ELSE MinimumWaitMs

SortQueueUnsorted(queue) == queue

\* queue.sort: HIGH before LOW, equal priorities by timestamp (the sort is
\* stable and timestamps do not decrease from one call to the next).
SortQueue(queue) ==
    SelectSeq(queue, LAMBDA c : c.priority = "HIGH") \o
    SelectSeq(queue, LAMBDA c : c.priority # "HIGH")

ScheduleNoRetry(g) == g

\* setTimeout(() => this.processQueue(), waitTime)
ScheduleRetry(g) == [g EXCEPT !.timers = Append(@, GetWaitTimeForLowPriority(g))]

\* The while loop of processQueue from its test to its next await or to its
\* return: the head call begins executing, or the loop ends (empty queue),
\* or it gives up processing and sets a retry timer (rate limit).
ProcessLoop(g) ==
    IF Len(g.queue) = 0 THEN [g EXCEPT !.processing = FALSE, !.inFlight = NoCall]
    ELSE IF Head(g.queue).priority = "HIGH"
    THEN [g EXCEPT !.queue = Tail(@), !.inFlight = Head(g.queue),
                   !.begun = Append(@, Head(g.queue))]
    ELSE IF CanExecuteLowPriorityCall(g)
    THEN [CleanupOldCallTimes(g) EXCEPT
             !.queue = Tail(@),
             !.lowPriorityCallTimes = Append(@, 0),
             !.lowBegins = Append(@, 0),
             !.begun = Append(@, Head(g.queue)),
             !.inFlight = Head(g.queue)]
    ELSE ScheduleRetry([CleanupOldCallTimes(g) EXCEPT !.processing = FALSE,
                                                      !.inFlight = NoCall])

ProcessQueueUnguarded(g) == ProcessLoop([g EXCEPT !.processing = TRUE])

\* processQueue(), up to its first await or its return.
ProcessQueue(g) ==
    IF g.processing THEN [g EXCEPT !.busy = TRUE]
    ELSE ProcessLoop([g EXCEPT !.processing = TRUE])

\* call(prompt, modelName, priority), up to the return of its executor.
GatewayCall(g, priority) ==
    LET call == [id |-> g.calls + 1, priority |-> priority]
        queued == [g EXCEPT !.queue = SortQueue(Append(@, call)), !.calls = @ + 1]
    IN  IF ~queued.processing THEN ProcessQueue(queued) ELSE queued

\* executeCall settles the promise of the call (resolve or reject), and the
\* loop of processQueue goes on.
ExecuteCallReturns(g) ==
    ProcessLoop([g EXCEPT !.settled = @ \cup {g.inFlight.id}, !.inFlight = NoCall])

\* The timer at position k is due: its callback calls processQueue().
TimerFires(g, k) == ProcessQueue([g EXCEPT !.timers = RemoveAt(@, k)])

\* The clock advances by ms: ages grow, timers come closer.
Elapse(g, ms) ==
    LET older(age) == IF age + ms >= RATE_LIMIT_WINDOW_MS THEN RATE_LIMIT_WINDOW_MS
                      ELSE age + ms
    IN  [g EXCEPT
            !.lowPriorityCallTimes = [i \in 1..Len(@) |-> older(@[i])],
            !.lowBegins = SelectSeq([i \in 1..Len(@) |-> older(@[i])],
                                    LAMBDA age : age < RATE_LIMIT_WINDOW_MS),
            !.timers = [i \in 1..Len(@) |-> IF @[i] > ms THEN @[i] - ms ELSE 0]]

\* A classifyIntent call not made yet.
NoClassifyCall == [called |-> FALSE]

\* No request was made on the agent route.
RouteIdle == sampleAgentInitialized = FALSE /\ deleted = {}

\* No context was returned to a caller.
NoSnapshots == [contexts |-> <<>>, expected |-> <<>>, intact |-> TRUE, ops |-> 0]

LibIdle == cls = NoClassifyCall /\ gw = NewGateway /\ RouteIdle /\ snap = NoSnapshots

(***************************************************************************)
(* SpecMem: one ThinkingMemory under any sequence of calls                 *)
(***************************************************************************)
\* The longest basePropositions list a createNewPath call is given.
MaxBase == 2

\* The record of the last call on the memory.  owed holds the pairs
\* <<path id, fact>> of the addVerifiedFact calls made so far whose path has
\* not been evicted since.
NoOp == [op |-> "none", before |-> <<>>, after |-> <<>>, id |-> 0, owed |-> {}]

IdleEngine ==
    [pc |-> "idle", seed |-> EmptyText, result |-> EmptyText,
     call |-> EvolveBegin(NewThinkingMemory(""), "", 0, "")]

MemIdle == memory = NewThinkingMemory("") /\ memOp = NoOp

VerIdle == verCall = [called |-> FALSE]

EngIdle == eng = IdleEngine

MemInit ==
    /\ \E ip \in Facts \cup {""} : memory = NewThinkingMemory(ip)
    /\ memOp = NoOp
    /\ VerIdle
    /\ EngIdle
    /\ AgentIdle
    /\ LibIdle

MemCreateNewPath ==
    /\ \E base \in SeqsUpTo(Facts, MaxBase) :
        LET r == CreateNewPath(memory, base)
        IN  /\ memory' = r.mem
            /\ memOp' = [op |-> "createNewPath", before |-> memory.paths,
                         after |-> r.mem.paths, id |-> r.id,
                         owed |-> {o \in memOp.owed :
                                     \E i \in 1..Len(AfterEviction(memory.paths)) :
                                        AfterEviction(memory.paths)[i].id = o[1]}]
    /\ UNCHANGED <<verCall, eng, agentVars, libVars>>

MemAddVerifiedFact ==
    /\ \E f \in Facts :
        /\ memory' = AddVerifiedFact(memory, f)
        /\ memOp' = [op |-> "addVerifiedFact", before |-> memory.paths,
                     after |-> memory'.paths, id |-> 0, fact |-> f,
                     owed |-> memOp.owed \cup
                              {<<memory.paths[i].id, f>> : i \in 1..Len(memory.paths)},
                     factsBefore |-> memory.facts,
                     repeated |-> (memOp.op = "addVerifiedFact" /\ memOp.fact = f)]
    /\ UNCHANGED <<verCall, eng, agentVars, libVars>>

MemAddPropositionToPath ==
    /\ \E f \in Facts, pid \in 1..(maxPaths + 1) :
        /\ memory' = AddPropositionToPath(memory, pid, f)
        /\ memOp' = [op |-> "addPropositionToPath", before |-> memory.paths,
                     after |-> memory'.paths, id |-> pid, owed |-> memOp.owed]
    /\ UNCHANGED <<verCall, eng, agentVars, libVars>>

MemNext == MemCreateNewPath \/ MemAddVerifiedFact \/ MemAddPropositionToPath

SpecMem == MemInit /\ [][MemNext]_vars

PathIds(paths) == {paths[i].id : i \in 1..Len(paths)}

\* The paths of `before` that are also in `after`, by id.
Survivors(before, after) == {i \in 1..Len(before) : before[i].id \in PathIds(after)}

\* C2: every createNewPath call made while the path count equals maxPaths
\* removes exactly one existing path, one of lowest confidence, leaves the
\* count at maxPaths, and returns the id of a new path that replaces no
\* surviving path (the id was not the id of a path that the eviction kept).
C2_EvictionKeepsCount ==
    (memOp.op = "createNewPath" /\ Len(memOp.before) = maxPaths) =>
        /\ Len(memOp.after) = maxPaths
        /\ memOp.id \notin PathIds(AfterEviction(memOp.before))
        /\ \E k \in 1..Len(memOp.before) :
            /\ \A j \in 1..Len(memOp.before) :
                memOp.before[k].confidence <= memOp.before[j].confidence
            /\ \A j \in 1..Len(memOp.before) :
                j # k => \E i \in 1..Len(memOp.after) : memOp.after[i] = memOp.before[j]

\* C17: addVerifiedFact is idempotent: a second call with the same fact text
\* leaves the shared fact set and every path's proposition list unchanged,
\* in size and in content.
C17_AddVerifiedFactIdempotent ==
    (memOp.op = "addVerifiedFact" /\ memOp.repeated) =>
        /\ memory.facts = memOp.factsBefore
        /\ memOp.after = memOp.before
        /\ memory.paths = memOp.before

\* C17 witness: addVerifiedFact has been called twice in a row with the same
\* fact on a memory of two paths.
C17_Witness ==
    /\ memOp.op = "addVerifiedFact"
    /\ memOp.repeated
    /\ Len(memOp.before) = 2
    /\ Includes(memory.facts, memOp.fact)
    /\ \A i \in 1..Len(memory.paths) : Includes(memory.paths[i].propositions, memOp.fact)

\* C18: after addVerifiedFact(f) returns, f is in the shared fact set and in
\* the proposition list of every path that existed when the call was made,
\* and it remains in each of those lists for as long as the path exists (the
\* memory has a path of that id that has not been evicted since the call).
C18_VerifiedFactStaysInPaths ==
    /\ memOp.op = "addVerifiedFact" =>
           /\ Includes(memory.facts, memOp.fact)
           /\ \A i \in 1..Len(memOp.before) :
                  \E j \in 1..Len(memory.paths) :
                     /\ memory.paths[j].id = memOp.before[i].id
                     /\ Includes(memory.paths[j].propositions, memOp.fact)
    /\ \A o \in memOp.owed :
           \A j \in 1..Len(memory.paths) :
               memory.paths[j].id = o[1] => Includes(memory.paths[j].propositions, o[2])

\* C20: in every reachable memory state, after any sequence of
\* addVerifiedFact, addPropositionToPath and createNewPath calls, no path's
\* proposition list contains the same proposition twice.
C20_NoDuplicatePropositions ==
    \A i \in 1..Len(memory.paths) : NoDuplicates(memory.paths[i].propositions)

(***************************************************************************)
(* SpecFacts: exportFacts and fromFacts on memories of every fact list     *)
(***************************************************************************)
\* The most shared facts of a memory that is exported.
MaxFacts == 3

\* The fact strings of the exported memories: plain facts, a blank fact, the
\* empty string and the sentinel.
FactStrings == {"f1", "f2", " ", "", "(empty)"}

\* A memory that addVerifiedFact has been called on with each fact of a list.
FactsInit ==
    /\ \E facts \in {q \in SeqsUpTo(FactStrings, MaxFacts) : NoDuplicates(q)} :
        memory = AddAllFacts(NewThinkingMemory(""), facts)
    /\ memOp = NoOp
    /\ VerIdle
    /\ EngIdle
    /\ AgentIdle
    /\ LibIdle

\* ThinkingMemory.fromFacts(memory.exportFacts()): the memory is exported
\* and built again from the text.
FactsRoundTrip ==
    /\ memOp.op = "none"
    /\ memory' = FromFacts(ExportFacts(memory))
    /\ memOp' = [op |-> "fromFacts", before |-> ExportFacts(memory),
                 after |-> ExportFacts(memory'), id |-> 0, facts |-> memory.facts,
                 owed |-> {}]
    /\ UNCHANGED <<verCall, eng, agentVars, libVars>>

FactsNext == FactsRoundTrip

SpecFacts == FactsInit /\ [][FactsNext]_vars

\* C16 (as stated): for any memory M whose shared facts are unique,
\* newline-free strings, fromFacts(M.exportFacts()).exportFacts() equals
\* M.exportFacts(): the same facts in the same order.
C16_RoundTrip ==
    memOp.op = "fromFacts" => memOp.after = memOp.before

\* C16 (amended): the round trip returns the same facts in the same order
\* for a memory whose shared facts are unique, newline-free strings none of
\* which is blank, and whose exported text is not the sentinel '(empty)'.
C16_RoundTripNonBlank ==
    (/\ memOp.op = "fromFacts"
     /\ memOp.before # EmptySentinel
     /\ \A i \in 1..Len(memOp.facts) : memOp.facts[i] \notin {"", " "}) =>
        /\ memOp.after = memOp.before
        /\ memory.facts = memOp.facts

\* C16 witness: a memory of three facts has been exported and built again,
\* and exports the same three lines.
C16_Witness ==
    /\ memOp.op = "fromFacts"
    /\ memOp.before = <<"f2", "(empty)", "f1">>
    /\ memOp.after = memOp.before

(***************************************************************************)
(* SpecClassify: classifyIntent calls on one agent, whose pattern table is *)
(* what the earlier calls have saved                                       *)
(***************************************************************************)
\* The most classifyIntent calls of a behaviour.
MaxClassifyCalls == 3

\* The conversation texts classifyIntent is called with.
ClassifyTexts ==
    { ConversationText(<<Msg("user", w)>>) : w \in {<<"K1">>, <<"K1", "k2">>, <<"hello">>} }
    \cup { ConversationText(<<Msg("user", <<"k2">>), Msg("agent", <<"k1">>)>>),
           ConversationText(<<Msg("agent", <<"k1">>)>>) }

\* What the model call of classifyIntent answers: it throws, its text has no
\* INTENT line, or it names an intent and keywords.
ClassifyResponses ==
    {[kind |-> "throw", intent |-> "", keywords |-> <<>>],
     [kind |-> "text", intent |-> "", keywords |-> <<"k1">>],
     [kind |-> "text", intent |-> "I1", keywords |-> <<"K1">>],
     [kind |-> "text", intent |-> "i2", keywords |-> <<"k2">>],
     [kind |-> "text", intent |-> "7", keywords |-> <<"K1", " ">>]}

\* cls.inserted is history: the intents of the table in the order in which
\* they were first saved.
ClassifyInit ==
    /\ MemIdle
    /\ VerIdle
    /\ EngIdle
    /\ AgentIdle
    /\ gw = NewGateway
    /\ RouteIdle
    /\ snap = NoSnapshots
    /\ cls = [called |-> FALSE, inserted |-> <<>>, calls |-> 0]

\* The agent is deployed.
ClassifyDeploy ==
    /\ ~GetAgent(store, "a1").exists
    /\ \E provider \in {"gemini", "openai"} :
        store' = SetAgent(store, "a1", DeployedAgent(provider))
    /\ UNCHANGED <<engineVars, now, lastUpdateTime, historyStore, lastEvolutionTime,
                   lastIntentClassificationTime, tasks, background, umLog, served,
                   admitted, ticks, cls, gw, routeVars, snap>>

\* classifyIntent('a1', conversationText)
ClassifyCall ==
    /\ GetAgent(store, "a1").exists
    /\ cls.calls < MaxClassifyCalls
    /\ \E conversationText \in ClassifyTexts, response \in ClassifyResponses :
        LET r == ClassifyIntent(store, "a1", conversationText, response)
        IN  /\ store' = r.store
            /\ cls' = [called |-> TRUE, calls |-> cls.calls + 1,
                       conversationText |-> conversationText,
                       tableBefore |-> GetAgent(store, "a1").intentPatterns,
                       insertedBefore |-> cls.inserted,
                       inserted |-> IF r.writes > 0 /\ ~Includes(cls.inserted, r.intent)
                                    THEN Append(cls.inserted, r.intent)
                                    ELSE cls.inserted,
                       result |-> [raised |-> r.raised, intent |-> r.intent,
                                   modelCalls |-> r.modelCalls, writes |-> r.writes]]
    /\ UNCHANGED <<engineVars, now, lastUpdateTime, historyStore, lastEvolutionTime,
                   lastIntentClassificationTime, tasks, background, umLog, served,
                   admitted, ticks, gw, routeVars, snap>>

ClassifyNext == ClassifyDeploy \/ ClassifyCall

SpecClassify == ClassifyInit /\ [][ClassifyNext]_vars

\* Whether the last line of the call that starts with 'user:' contains a
\* keyword the table held for the intent.
KeywordHit(intent) ==
    /\ LastUserLine(cls.conversationText) # 0
    /\ \E k \in Range(ObjGet(cls.tableBefore, intent, <<>>)) :
           \E w \in Range(cls.conversationText[LastUserLine(cls.conversationText)].words) :
               ToLowerCase(w) = ToLowerCase(k)

\* C21: when the most recent line of the conversation text that starts with
\* 'user:' contains, case-insensitively, a keyword stored in the agent's
\* intent pattern table, classifyIntent returns the first intent in table
\* insertion order that has such a keyword, makes no model call and writes
\* nothing to the store.
C21_FirstInsertedMatchWins ==
    (cls.called /\ \E i \in 1..Len(cls.insertedBefore) : KeywordHit(cls.insertedBefore[i])) =>
        LET first == CHOOSE i \in 1..Len(cls.insertedBefore) :
                        /\ KeywordHit(cls.insertedBefore[i])
                        /\ \A j \in 1..(i - 1) : ~KeywordHit(cls.insertedBefore[j])
        IN  /\ cls.result.intent = cls.insertedBefore[first]
            /\ cls.result.modelCalls = 0
            /\ cls.result.writes = 0
            /\ GetAgent(store, "a1").intentPatterns = cls.tableBefore

(***************************************************************************)
(* SpecGateway: calls of either priority on the GeminiAPIManager, the      *)
(* model calls returning, the retry timers firing and time passing         *)
(***************************************************************************)
\* The most calls made on the manager in a behaviour.
MaxGatewayCalls == 5

\* The time that passes in one step of the clock: a third of the window.
GatewayTickMs == RATE_LIMIT_WINDOW_MS \div 3

GatewayInit ==
    /\ MemIdle
    /\ VerIdle
    /\ EngIdle
    /\ AgentIdle
    /\ cls = NoClassifyCall
    /\ gw = NewGateway
    /\ RouteIdle
    /\ snap = NoSnapshots

\* geminiManager.call(prompt, modelName, priority)
GwCall(priority) ==
    /\ gw.calls < MaxGatewayCalls
    /\ gw' = GatewayCall(gw, priority)
    /\ UNCHANGED <<engineVars, agentVars, cls, routeVars, snap>>

\* The model call of executeCall returns or throws: the promise of the call
\* is resolved or rejected, and processQueue goes on with its loop.
GwExecuteCallReturns ==
    /\ gw.inFlight # NoCall
    /\ gw' = ExecuteCallReturns(gw)
    /\ UNCHANGED <<engineVars, agentVars, cls, routeVars, snap>>

\* A retry timer that is due fires.
GwTimerFires ==
    /\ \E k \in 1..Len(gw.timers) :
        /\ gw.timers[k] = 0
        /\ gw' = TimerFires(gw, k)
    /\ UNCHANGED <<engineVars, agentVars, cls, routeVars, snap>>

\* Time passes.
GwElapse ==
    /\ gw' = Elapse(gw, GatewayTickMs)
    /\ UNCHANGED <<engineVars, agentVars, cls, routeVars, snap>>

GatewayNext ==
    \/ GwCall("HIGH")
    \/ GwCall("LOW")
    \/ GwExecuteCallReturns
    \/ GwTimerFires
    \/ GwElapse

SpecGateway == GatewayInit /\ [][GatewayNext]_vars

\* The model calls return, the timers that are due fire, and time passes.
SpecGatewayLive ==
    /\ GatewayInit
    /\ [][GatewayNext]_vars
    /\ WF_vars(GwExecuteCallReturns)
    /\ WF_vars(GwTimerFires)
    /\ WF_vars(GwElapse)

\* C23: a HIGH-priority call starts executing immediately when it is
\* enqueued: it is delayed neither by the low-priority rate limit (also not
\* while queue draining is paused for it) nor by a LOW-priority call that is
\* queued or already in flight.  A HIGH call waits in the queue only while
\* another HIGH call is executing.
C23_HighStartsImmediately ==
    (\E i \in 1..Len(gw.queue) : gw.queue[i].priority = "HIGH") =>
        /\ gw.processing
        /\ gw.inFlight.priority = "HIGH"

\* C24: in any rolling window of 60 seconds at most 3 LOW-priority calls
\* begin execution, whatever the arrivals of LOW and HIGH calls and however
\* many retry timers are pending; HIGH executions do not count against the
\* cap.  (lowBegins holds the LOW executions begun less than 60 seconds ago.)
C24_LowPriorityCap ==
    /\ Len(gw.lowBegins) <= 3
    /\ Len(gw.lowPriorityCallTimes) <=
           Cardinality({i \in 1..Len(gw.begun) : gw.begun[i].priority = "LOW"})

\* C24 witness: three LOW executions began within the window, a HIGH call
\* was executed after them within the same window, and a fourth LOW call
\* waits with two retry timers pending.
C24_Witness ==
    /\ Len(gw.lowBegins) = 3
    /\ \E i \in 1..Len(gw.begun) : gw.begun[i].priority = "HIGH" /\ i > 3
    /\ Len(gw.queue) = 1
    /\ Len(gw.timers) = 2

\* C25: when the low-priority cap is hit, queue draining stops without
\* blocking and a retry is scheduled: whenever the queue is non-empty, either
\* a call is executing or a retry timer is pending, so that, model calls
\* completing and timers firing, every enqueued call is eventually executed
\* and its promise settled.
C25_EveryCallSettles ==
    /\ [](gw.queue # <<>> => (gw.inFlight # NoCall \/ gw.timers # <<>>))
    /\ \A id \in 1..MaxGatewayCalls : (gw.calls >= id) ~> (id \in gw.settled)

\* C25 witness: a fourth LOW call, which the cap kept in the queue, has been
\* executed and its promise settled.
C25_Witness ==
    /\ Len(gw.begun) = 4
    /\ \A i \in 1..4 : gw.begun[i].priority = "LOW"
    /\ gw.begun[4].id \in gw.settled
    /\ gw.queue = <<>>

(***************************************************************************)
(* SpecVerify: LogicalVerifier.verify on every response of the model       *)
(***************************************************************************)
VerifyInit ==
    /\ MemIdle
    /\ verCall = [called |-> FALSE]
    /\ EngIdle
    /\ AgentIdle
    /\ LibIdle

VerifyCall ==
    /\ \E response \in VerifierResponses, proposition \in Facts :
        verCall' = [called |-> TRUE, proposition |-> proposition,
                    response |-> response, result |-> Verify(response)]
    /\ UNCHANGED <<memory, memOp, eng, agentVars, libVars>>

VerifyNext == VerifyCall

SpecVerify == VerifyInit /\ [][VerifyNext]_vars

\* C10: verify returns valid = true exactly when the parsed verdict is VALID
\* and the parsed confidence is at least 0.7: VALID at "0.69" is rejected,
\* VALID at "0.70" is accepted, UNCERTAIN or INVALID is rejected at every
\* confidence.
C10_AdmissionThreshold ==
    (verCall.called /\ verCall.response.kind = "text") =>
        LET r == verCall.result
            t == verCall.response
        IN  /\ r.valid <=> (r.verdict = "VALID" /\ r.confidence >= 700)
            /\ (t.verdict = "VALID" /\ t.confidence = <<"0", ".", "6", "9">>) => ~r.valid
            /\ (t.verdict = "VALID" /\ t.confidence = <<"0", ".", "7", "0">>) => r.valid
            /\ t.verdict \in {"UNCERTAIN", "INVALID", "Invalid"} => ~r.valid

\* C10 witness: a VALID verdict at "0.70" has been verified and admitted.
C10_Witness ==
    /\ verCall.called
    /\ verCall.response.kind = "text"
    /\ verCall.response.verdict = "VALID"
    /\ verCall.response.confidence = <<"0", ".", "7", "0">>
    /\ verCall.result.valid

\* C11: verify fails closed and never raises: a failed model call gives
\* valid = false with confidence 0; a response without a verdict line is read
\* as UNCERTAIN and a response without a confidence line as 0.5, and in both
\* cases the result is valid = false.
C11_FailsClosed ==
    verCall.called =>
        LET r == verCall.result
            t == verCall.response
        IN  /\ r.valid \in BOOLEAN
            /\ t.kind = "throw" => (~r.valid /\ r.confidence = 0)
            /\ (t.kind = "text" /\ t.verdict \in {"", "MAYBE"}) =>
                   (r.verdict = "UNCERTAIN" /\ ~r.valid)
            /\ (t.kind = "text" /\ t.confidence = <<>>) =>
                   (r.confidence = 500 /\ ~r.valid)

\* C11 witness: a response that has no verdict line but a confidence of 0.9
\* has been verified and rejected.
C11_Witness ==
    /\ verCall.called
    /\ verCall.response.kind = "text"
    /\ verCall.response.verdict = ""
    /\ verCall.response.confidence = <<"0", ".", "9">>
    /\ ~verCall.result.valid

(***************************************************************************)
(* SpecEngine: evolve calls of a LogicalReasoningEngine, one runCycle at a *)
(* time, against every behaviour of the model calls                        *)
(***************************************************************************)
\* The most cycles an evolve call is asked for.
MaxCycles == 3

\* The most lines of the knowledge text an engine is built from.
MaxSeedLines == 1

KnowledgeTexts ==
    {EmptySentinel} \cup (SeqsUpTo(Facts \cup {""}, MaxSeedLines) \ {<<>>})

ConversationTexts == {"", "user: what is a blockchain?"}

EngineInit ==
    /\ MemIdle
    /\ VerIdle
    /\ eng = IdleEngine
    /\ AgentIdle
    /\ LibIdle

\* new LogicalReasoningEngine(modelName, initialKnowledge) and the call of
\* evolve(intent, cycles, conversationContext) on it.
EngineEvolve ==
    /\ eng.pc = "idle"
    /\ \E initialKnowledge \in KnowledgeTexts, cycles \in 1..MaxCycles,
          conversationContext \in ConversationTexts :
        eng' = [pc |-> "running", seed |-> initialKnowledge, result |-> EmptyText,
                call |-> EvolveBegin(NewEngineMemory(initialKnowledge), "i1",
                                     cycles, conversationContext)]
    /\ UNCHANGED <<memory, memOp, verCall, agentVars, libVars>>

\* One iteration of the loop of evolve: a whole runCycle.
EngineRunCycle ==
    /\ eng.pc = "running"
    /\ EvolveLoops(eng.call)
    /\ \E o \in CycleOracles(eng.call.mem, eng.call.conversationContext) :
        eng' = [eng EXCEPT !.call = EvolveStep(eng.call, o)]
    /\ UNCHANGED <<memory, memOp, verCall, agentVars, libVars>>

\* The loop has ended: evolve returns the exported facts.
EngineReturn ==
    /\ eng.pc = "running"
    /\ ~EvolveLoops(eng.call)
    /\ eng' = [eng EXCEPT !.pc = "returned", !.result = EvolveResult(eng.call)]
    /\ UNCHANGED <<memory, memOp, verCall, agentVars, libVars>>

EngineNext == EngineEvolve \/ EngineRunCycle \/ EngineReturn

SpecEngine == EngineInit /\ [][EngineNext]_vars

\* C5: in evolve, every cycle after which the loop goes on to another cycle
\* has strictly increased the size of the shared fact set; a cycle that does
\* not grow the set is the last cycle run.
C5_LoopGoesOnOnlyAfterGrowth ==
    \A k \in 1..Len(eng.call.rounds) :
        (k < Len(eng.call.rounds) \/ EvolveLoops(eng.call)) =>
            eng.call.rounds[k].sizeAfter > eng.call.rounds[k].sizeBefore

\* C9: an evolve call with cycles = 3 whose second cycle admits zero facts
\* performs at most 2 generate+verify rounds; no round (hence no generator
\* or verifier call) follows the first cycle whose factsAdded is 0, and at
\* most `cycles` rounds are run.
C9_EarlyStop ==
    LET rounds == eng.call.rounds
    IN  /\ Len(rounds) <= eng.call.cycles
        /\ \A k \in 1..Len(rounds) :
            rounds[k].factsAdded = 0 => (k = Len(rounds) /\ ~EvolveLoops(eng.call))
        /\ (eng.call.cycles = 3 /\ Len(rounds) >= 2 /\ rounds[2].factsAdded = 0) =>
                Len(rounds) = 2

\* C9 witness: a 3-cycle evolve has returned after two rounds, the second of
\* which admitted nothing.
C9_Witness ==
    /\ eng.pc = "returned"
    /\ eng.call.cycles = 3
    /\ Len(eng.call.rounds) = 2
    /\ eng.call.rounds[1].factsAdded > 0
    /\ eng.call.rounds[2].factsAdded = 0
    /\ Len(eng.call.rounds[2].candidates) > 0

\* C12: within one runCycle every candidate is verified against the same
\* context snapshot, the one taken before the candidates of the cycle were
\* generated; a fact admitted earlier in the cycle is not in the context a
\* later candidate of the cycle is verified against.
C12_OneSnapshotPerCycle ==
    \A k \in 1..Len(eng.call.rounds) :
        LET round == eng.call.rounds[k]
        IN  \A j \in 1..Len(round.verified) :
                /\ round.verified[j].context = round.genContext
                /\ Len(round.verified[j].context.sharedFacts) = round.sizeBefore
                /\ \A i \in 1..(j - 1) :
                       (round.verified[i].valid /\ ~round.verified[i].knownBefore) =>
                           ~Includes(round.verified[j].context.sharedFacts,
                                     round.verified[i].candidate)

\* C12 witness: a cycle admitted its first candidate, a fact new to the
\* memory, and went on to verify a second candidate.
C12_Witness ==
    \E k \in 1..Len(eng.call.rounds) :
        LET round == eng.call.rounds[k]
        IN  /\ Len(round.verified) = 2
            /\ round.verified[1].valid
            /\ ~round.verified[1].knownBefore
            /\ round.sizeAfter > round.sizeBefore

\* C13: the context passed to generateNextPropositions in a cycle holds the
\* shared facts the memory has at the moment of that call; when the cycle
\* admitted a cold-start initial proposition, the context given to the
\* generator, and then to the verifier, contains that proposition.
C13_GeneratorSeesCurrentMemory ==
    \A k \in 1..Len(eng.call.rounds) :
        LET round == eng.call.rounds[k]
        IN  /\ round.genContext.sharedFacts = round.factsAtGenerate
            /\ round.initial # <<>> =>
                   /\ Includes(round.genContext.sharedFacts, round.initial[1])
                   /\ \A j \in 1..Len(round.verified) :
                          Includes(round.verified[j].context.sharedFacts, round.initial[1])

\* The number of rounds of the evolve call that admitted an initial
\* proposition.
InitialPropositions == Cardinality({k \in 1..Len(eng.call.rounds) : eng.call.rounds[k].initial # <<>>})

\* C14: one evolve call with cycles >= 1 on a memory whose shared fact set is
\* empty, with conversation context supplied, admits exactly one initial
\* proposition over the whole call (the fallback string when the model call
\* for it fails) and ends with at least one shared fact; when the fact set
\* is non-empty or no conversation context is supplied, no initial
\* proposition is generated.
C14_OneInitialProposition ==
    LET rounds == eng.call.rounds
        cold == /\ Len(NewEngineMemory(eng.seed).facts) = 0
                /\ eng.call.conversationContext # ""
    IN  /\ (cold /\ Len(rounds) >= 1) =>
               /\ InitialPropositions = 1
               /\ rounds[1].initial # <<>>
               /\ rounds[1].initial[1] \in {"Core concept: i1", "p0", ""}
               /\ Includes(eng.call.mem.facts, rounds[1].initial[1])
               /\ Len(eng.call.mem.facts) >= 1
        /\ eng.pc = "returned" => Len(rounds) >= 1
        /\ ~cold => InitialPropositions = 0
        /\ \A k \in 1..Len(rounds) :
               (rounds[k].sizeBefore > 0 \/ eng.call.conversationContext = "") =>
                   rounds[k].initial = <<>>

\* C14 witness: an evolve call on an empty memory has returned after two
\* cycles, the first of which admitted the fallback string and a candidate.
C14_Witness ==
    /\ eng.pc = "returned"
    /\ Len(eng.call.rounds) = 2
    /\ eng.call.rounds[1].initial = <<"Core concept: i1">>
    /\ eng.call.rounds[1].sizeBefore = 0
    /\ eng.call.rounds[1].factsAdded > 0
    /\ eng.call.rounds[2].initial = <<>>

\* Whether the verifier rejected every candidate of a round.
AllRejected(round) == \A j \in 1..Len(round.verified) : ~round.verified[j].valid

\* C15 (as stated): if the verifier returns valid = false for every
\* candidate, then after the cycle the shared fact count equals the count
\* before that cycle, and the early-stop condition triggers so that no
\* further cycle is run.
C15_RejectAllKeepsCount ==
    \A k \in 1..Len(eng.call.rounds) :
        AllRejected(eng.call.rounds[k]) =>
            /\ eng.call.rounds[k].sizeAfter = eng.call.rounds[k].sizeBefore
            /\ k = Len(eng.call.rounds)
            /\ ~EvolveLoops(eng.call)

\* C15 (amended): if the verifier returns valid = false for every candidate,
\* the cycle admits no candidate: the shared fact count after the cycle is
\* the count before it, plus one when the cycle was a cold start and admitted
\* its initial proposition; the early-stop condition triggers and no further
\* cycle is run.
C15_RejectAllAdmitsNoCandidate ==
    \A k \in 1..Len(eng.call.rounds) :
        LET round == eng.call.rounds[k]
        IN  AllRejected(round) =>
                /\ round.factsAdded = 0
                /\ round.sizeAfter = round.sizeBefore + Len(round.initial)
                /\ k = Len(eng.call.rounds)
                /\ ~EvolveLoops(eng.call)

\* C15 witness: a 3-cycle evolve on an empty memory has returned after one
\* cycle whose two candidates were both rejected; the memory holds the
\* initial proposition only.
C15_Witness ==
    /\ eng.pc = "returned"
    /\ eng.call.cycles = 3
    /\ Len(eng.call.rounds) = 1
    /\ Len(eng.call.rounds[1].verified) = 2
    /\ AllRejected(eng.call.rounds[1])
    /\ eng.call.rounds[1].sizeBefore = 0
    /\ eng.call.rounds[1].sizeAfter = 1

\* C19: a memory starts with exactly one reasoning path: the memory the
\* engine constructor builds from non-empty persisted fact text (fromFacts)
\* has one path with confidence 1.0 whose proposition list holds the seed
\* facts in order, and the memory built with no seed has one empty path.
C19_StartsWithOnePath ==
    (eng.pc = "running" /\ eng.call.rounds = <<>>) =>
        /\ Len(eng.call.mem.paths) = 1
        /\ eng.call.mem.paths[1].propositions = eng.call.mem.facts
        /\ eng.call.mem.facts # <<>> => eng.call.mem.paths[1].confidence = 1000

(***************************************************************************)
(* SpecAgent: the update-memory route, the evolve-thinking route and the   *)
(* converse operation over one store, one request at a time.  A handler    *)
(* advances from one await to the next in one step.                        *)
(***************************************************************************)
\* The most requests taken in a behaviour.
MaxRequests == 2

\* The most requests of a behaviour that get past the checks of their route.
MaxAdmitted == 1

\* The most clock advances in a behaviour.
MaxTicks == 2

\* The most candidates the generator returns to a handler.
MaxAgentCandidates == 1

\* The time, in milliseconds, that passes at the k-th clock advance: the
\* first stops short of the intervals of the rate limits, the second ends them.
TickStep(k) == IF k = 1 THEN 59500 ELSE 500

Slots == DOMAIN tasks

TaskFree(s) == tasks[s].pc \in {"idle", "done"}

\* No evolution of a background is running.
BackgroundIdle == \A k \in 1..Len(background) : background[k].pc = "evolved"

\* const MIN_UPDATE_INTERVAL_MS = 60000
MIN_UPDATE_INTERVAL_MS == 60000

RateLimitedHalfMinute(lastUpdate, t) ==
    lastUpdate # 0 /\ (t - lastUpdate) < 30000

\* lastUpdate && (now - lastUpdate) < MIN_UPDATE_INTERVAL_MS
RateLimited(lastUpdate, t) ==
    lastUpdate # 0 /\ (t - lastUpdate) < MIN_UPDATE_INTERVAL_MS

\* The update-memory bodies: for a1 a history of three messages with or
\* without intent and username, and an empty history; for ghost one complete
\* body; for both a body with no contextId and one with no conversationHistory.
ThreeMessages ==
    <<Msg("user", <<"hello">>), Msg("agent", <<"k2">>), Msg("user", <<"K1", "news">>)>>

UMRequests ==
    {[NoRequest EXCEPT !.agentId = "a1", !.contextId = "c1", !.hasHistory = TRUE,
                       !.conversationHistory = ThreeMessages, !.intent = i,
                       !.username = u] : i \in {"", "i1"}, u \in {"", "alice"}}
    \cup {[NoRequest EXCEPT !.agentId = a, !.contextId = "c1", !.hasHistory = TRUE,
                            !.intent = "i1"] : a \in AgentIds}
    \cup {[NoRequest EXCEPT !.agentId = a, !.hasHistory = TRUE] : a \in AgentIds}
    \cup {[NoRequest EXCEPT !.agentId = a, !.contextId = "c1"] : a \in AgentIds}

\* What the model call of classifyIntent does: it throws, or answers a text
\* with or without an INTENT line and a KEYWORDS line.
ClassifierResponses ==
    {[kind |-> "throw", intent |-> "", keywords |-> <<>>],
     [kind |-> "text", intent |-> "", keywords |-> <<"k1">>],
     [kind |-> "text", intent |-> "I1", keywords |-> <<"K1", " ", "k2">>]}

\* The model calls of one runCycle of a handler: the initial proposition is
\* answered, the generator answers without JSON or with candidates that are
\* all f1, and the verifier answers VALID or UNCERTAIN at 0.9.
AgentOracles(m, conversationContext) ==
    {o \in CycleOracles(m, conversationContext) :
        /\ o.gen.kind # "throw"
        /\ Len(GenerateNextPropositions(o.gen)) <= MaxAgentCandidates
        /\ \A i \in DOMAIN GenerateNextPropositions(o.gen) :
                GenerateNextPropositions(o.gen)[i] = "f1"
        /\ o.init \in {[kind |-> "none"], [kind |-> "text", text |-> "p0"]}
        /\ \A i \in DOMAIN o.ver :
                o.ver[i].kind = "text" /\ o.ver[i].confidence = <<"0", ".", "9">>}

\* evolveThinking up to its evolve call (lines 140-168), in the handler t.
BeginEvolveThinking(t, agentId, intent, conversationContext, cycles) ==
    IF GetAgent(store, agentId).exists
    THEN [t EXCEPT !.pc = "et.cycle",
                   !.et = EvolveThinkingBegin(store, agentId, intent,
                                              conversationContext, cycles)]
    ELSE [t EXCEPT !.pc = "evolved", !.cause = "not-found",
                   !.thinkingResult = EvolveThinkingFailure]

UpdateTimesWhenValid(times, req, t) ==
    IF RateLimited(ObjGet(times, req.agentId, 0), t) THEN times
    ELSE IF req.contextId = "" \/ ~req.hasHistory THEN times
    ELSE ObjSet(times, req.agentId, t)

UpdateTimesAlways(times, req, t) == ObjSet(times, req.agentId, t)

\* POST update-memory, lines 21-36: lastUpdateTime as the request leaves it.
\* A request that is skipped returns before the assignment; the assignment
\* comes before any check of the request.
UpdateTimes(times, req, t) ==
    IF RateLimited(ObjGet(times, req.agentId, 0), t) THEN times
    ELSE ObjSet(times, req.agentId, t)

\* POST update-memory, lines 19-43: the body, the rate limit, the timestamp,
\* the required fields; maxRequests bounds the requests of a behaviour.
UMArrive(s, maxRequests) ==
    /\ TaskFree(s)
    /\ BackgroundIdle
    /\ served < maxRequests
    /\ served' = served + 1
    /\ \E req \in UMRequests :
        LET lastUpdate == ObjGet(lastUpdateTime, req.agentId, 0)
            waitTime == CeilSeconds(MIN_UPDATE_INTERVAL_MS - (now - lastUpdate))
            t == [IdleTask EXCEPT !.op = "um", !.req = req, !.arrived = now,
                                  !.prevServed = umLog.arrival[req.agentId]]
        IN  IF RateLimited(lastUpdate, now)
            THEN /\ tasks' = [tasks EXCEPT ![s] =
                        [t EXCEPT !.pc = "done",
                                  !.resp = [NoResponse EXCEPT !.status = 200,
                                                !.success = TRUE, !.skipped = TRUE,
                                                !.waitTime = waitTime]]]
                 /\ lastUpdateTime' = UpdateTimes(lastUpdateTime, req, now)
                 /\ umLog' = [umLog EXCEPT !.skipped[req.agentId] = now]
                 /\ admitted' = admitted
            ELSE /\ lastUpdateTime' = UpdateTimes(lastUpdateTime, req, now)
                 /\ umLog' = [umLog EXCEPT !.arrival[req.agentId] = now]
                 /\ IF req.contextId = "" \/ ~req.hasHistory
                    THEN /\ tasks' = [tasks EXCEPT ![s] =
                                [t EXCEPT !.pc = "done",
                                    !.resp = ErrorResponse(400,
                                        "Missing contextId or conversationHistory")]]
                         /\ admitted' = admitted
                    ELSE /\ admitted < MaxAdmitted
                         /\ admitted' = admitted + 1
                         /\ tasks' = [tasks EXCEPT ![s] =
                                [t EXCEPT !.pc = "getAgent",
                                    !.effectiveUsername =
                                        IF req.username # "" THEN req.username
                                        ELSE req.contextId]]
    /\ UNCHANGED <<engineVars, libVars, store, now, historyStore, lastEvolutionTime,
                   lastIntentClassificationTime, background, ticks>>

UMBegin(s) == UMArrive(s, MaxRequests)


\* Lines 45-60: the agent is read and checked, the conversation text built.
UMGetAgent(s) ==
    /\ tasks[s].op = "um" /\ tasks[s].pc = "getAgent"
    /\ LET t == tasks[s]
           agent == GetAgent(store, t.req.agentId)
       IN  tasks' = [tasks EXCEPT ![s] =
                IF ~agent.exists
                THEN [t EXCEPT !.pc = "done", !.resp = ErrorResponse(404, "Agent not found")]
                ELSE IF agent.modelProvider # "gemini"
                THEN [t EXCEPT !.pc = "done",
                        !.resp = ErrorResponse(400, "Only Gemini models are supported")]
                ELSE [t EXCEPT !.pc = "intent", !.agent = agent,
                        !.conversationText =
                            ConversationText(LastN(t.req.conversationHistory,
                                                   HistoryWindow))]]
    /\ UNCHANGED <<engineVars, libVars, store, now, lastUpdateTime, historyStore,
                   lastEvolutionTime, lastIntentClassificationTime, background,
                   umLog, served, admitted, ticks>>

\* Lines 62-73: the provided intent, or classifyIntent (a throw of which
\* reaches the catch of line 190).
UMIntent(s) ==
    /\ tasks[s].op = "um" /\ tasks[s].pc = "intent"
    /\ LET t == tasks[s]
       IN  IF t.req.intent # ""
           THEN /\ tasks' = [tasks EXCEPT ![s] =
                        [t EXCEPT !.pc = "memories", !.intent = t.req.intent]]
                /\ store' = store
           ELSE \E response \in ClassifierResponses :
                LET r == ClassifyIntent(store, t.req.agentId, t.conversationText, response)
                    c == [called |-> TRUE, raised |-> r.raised,
                          kind |-> IF r.modelCalls = 0 THEN "pattern" ELSE response.kind,
                          parsed |-> r.modelCalls = 1 /\ response.kind = "text"
                                        /\ response.intent # "",
                          intent |-> r.intent,
                          before |-> GetAgent(store, t.req.agentId).intentPatterns,
                          after |-> GetAgent(r.store, t.req.agentId).intentPatterns]
                IN  /\ store' = r.store
                    /\ tasks' = [tasks EXCEPT ![s] =
                            IF r.raised
                            THEN [t EXCEPT !.pc = "done", !.classification = c,
                                    !.modelCalls = @ + r.modelCalls,
                                    !.resp = ErrorResponse(500, "Failed to update memory")]
                            ELSE [t EXCEPT !.pc = "memories", !.classification = c,
                                    !.intent = r.intent,
                                    !.modelCalls = @ + r.modelCalls,
                                    !.writes = @ + r.writes]]
    /\ UNCHANGED <<engineVars, libVars, now, lastUpdateTime, historyStore, lastEvolutionTime,
                   lastIntentClassificationTime, background, umLog, served, admitted, ticks>>

\* Lines 76-93: the current memories are read and evolveThinking is called
\* with one cycle.
UMMemories(s) ==
    /\ tasks[s].op = "um" /\ tasks[s].pc = "memories"
    /\ LET t == tasks[s]
           t1 == [t EXCEPT
                    !.currentThinking = GetThinkingMemory(store, t.req.agentId, t.intent),
                    !.currentCaring = GetUserCaring(store, t.req.agentId,
                                                    t.effectiveUsername)]
       IN  tasks' = [tasks EXCEPT ![s] =
                BeginEvolveThinking(t1, t.req.agentId, t.intent,
                                    ContextOf(t.conversationText), 1)]
    /\ UNCHANGED <<engineVars, libVars, store, now, lastUpdateTime, historyStore,
                   lastEvolutionTime, lastIntentClassificationTime, background,
                   umLog, served, admitted, ticks>>

\* One runCycle of the evolve call of evolveThinking (line 164).
TaskEvolveCycle(s) ==
    /\ tasks[s].pc = "et.cycle"
    /\ EvolveLoops(tasks[s].et.call)
    /\ \E o \in AgentOracles(tasks[s].et.call.mem, tasks[s].et.call.conversationContext) :
        LET e == EvolveStep(tasks[s].et.call, o)
        IN  tasks' = [tasks EXCEPT ![s] =
                [@ EXCEPT !.et.call = [e EXCEPT !.rounds = <<>>],
                          !.modelCalls = @ + RoundModelCalls(e.rounds[Len(e.rounds)])]]
    /\ UNCHANGED <<engineVars, libVars, store, now, lastUpdateTime, historyStore,
                   lastEvolutionTime, lastIntentClassificationTime, background,
                   umLog, served, admitted, ticks>>

\* evolveThinking, lines 170-199: the count, the write of the agent, the
\* result; the write may be rejected by the store, which the catch turns
\* into the failure result.
TaskEvolveFinish(s) ==
    /\ tasks[s].pc = "et.cycle"
    /\ ~EvolveLoops(tasks[s].et.call)
    /\ \E rejected \in BOOLEAN :
        IF rejected
        THEN /\ store' = store
             /\ tasks' = [tasks EXCEPT ![s] =
                    [@ EXCEPT !.pc = "evolved", !.cause = "store",
                              !.thinkingResult = EvolveThinkingFailure]]
        ELSE /\ store' = EvolveThinkingWrite(store, tasks[s].et)
             /\ tasks' = [tasks EXCEPT ![s] =
                    [@ EXCEPT !.pc = "evolved", !.writes = @ + 1,
                              !.thinkingResult = EvolveThinkingSuccess(tasks[s].et)]]
    /\ UNCHANGED <<engineVars, libVars, now, lastUpdateTime, historyStore, lastEvolutionTime,
                   lastIntentClassificationTime, background, umLog, served, admitted, ticks>>

\* Lines 95-112: the caring engine is built on the current caring and
\* evolved for one cycle.
UMCaring(s) ==
    /\ tasks[s].op = "um" /\ tasks[s].pc = "evolved"
    /\ LET t == tasks[s]
           mem == NewEngineMemory(IF t.currentCaring # EmptySentinel
                                  THEN t.currentCaring ELSE EmptyText)
           call == EvolveBegin(mem, "user_thinking", 1, ContextOf(t.conversationText))
       IN  \E o \in AgentOracles(mem, call.conversationContext) :
            LET e == EvolveStep(call, o)
            IN  tasks' = [tasks EXCEPT ![s] =
                    [t EXCEPT !.pc = "persist",
                              !.newCaring = EvolveResult(e),
                              !.caringFacts = Len(e.mem.facts) - Len(mem.facts),
                              !.modelCalls = @ + RoundModelCalls(e.rounds[1])]]
    /\ UNCHANGED <<engineVars, libVars, store, now, lastUpdateTime, historyStore,
                   lastEvolutionTime, lastIntentClassificationTime, background,
                   umLog, served, admitted, ticks>>

\* Lines 118-123.
ThinkingUpdated(t) == t.thinkingResult.success /\ t.thinkingResult.factsAdded > 0

\* Lines 126-131.
CaringUpdated(t) ==
    t.newCaring # EmptyText /\ t.newCaring # t.currentCaring /\ t.newCaring # EmptySentinel

\* Lines 142-157: the agent read at line 45 with the two maps.
PersistedAgent(t) ==
    LET latestThinking == IF t.thinkingResult.success THEN t.thinkingResult.newThinking
                          ELSE t.currentThinking
        latestCaring == IF t.newCaring # EmptyText THEN t.newCaring ELSE t.currentCaring
    IN  [t.agent EXCEPT
            !.thinkingMemories = IF ThinkingUpdated(t)
                                 THEN ObjSet(@, t.intent, latestThinking) ELSE @,
            !.caringMemories = IF CaringUpdated(t)
                               THEN ObjSet(@, t.effectiveUsername, latestCaring) ELSE @]

\* Lines 114-188: what changed is decided, the agent persisted if anything
\* did, and the response returned.
UMPersist(s) ==
    /\ tasks[s].op = "um" /\ tasks[s].pc = "persist"
    /\ LET t == tasks[s]
           updated == ThinkingUpdated(t) \/ CaringUpdated(t)
           resp == [NoResponse EXCEPT
                      !.status = 200, !.success = TRUE, !.intent = t.intent,
                      !.username = t.effectiveUsername,
                      !.thinkingUpdated = ThinkingUpdated(t),
                      !.caringUpdated = CaringUpdated(t),
                      !.thinking = IF t.thinkingResult.success
                                   THEN t.thinkingResult.newThinking
                                   ELSE t.currentThinking,
                      !.caring = IF t.newCaring # EmptyText THEN t.newCaring
                                 ELSE t.currentCaring]
       IN  /\ store' = IF updated THEN SetAgent(store, t.req.agentId, PersistedAgent(t))
                       ELSE store
           /\ tasks' = [tasks EXCEPT ![s] =
                    [t EXCEPT !.pc = "done", !.resp = resp,
                              !.writes = IF updated THEN @ + 1 ELSE @]]
           /\ umLog' = IF CaringUpdated(t)
                       THEN [umLog EXCEPT !.caring =
                                ObjSet(@, ContextKey(t.req.agentId, t.req.contextId),
                                       [key |-> t.effectiveUsername, value |-> resp.caring])]
                       ELSE umLog
    /\ UNCHANGED <<engineVars, libVars, now, lastUpdateTime, historyStore, lastEvolutionTime,
                   lastIntentClassificationTime, background, served, admitted, ticks>>

\* The bodies of the evolve-thinking route: cycles 0 is a body without cycles.
MERequests ==
    {[NoRequest EXCEPT !.agentId = "a1", !.intent = "i1", !.conversationContext = c,
                       !.cycles = n] : c \in {"", "conversation"}, n \in {0, 1}}
    \cup {[NoRequest EXCEPT !.agentId = a, !.intent = i, !.conversationContext = "conversation"] :
            a \in AgentIds, i \in {"", "i1"}}

\* cycles || 2
DefaultCycles == 2

\* POST evolve-thinking, lines 13-34, and evolveThinking up to its evolve.
MEBegin(s) ==
    /\ TaskFree(s)
    /\ BackgroundIdle
    /\ served < MaxRequests
    /\ served' = served + 1
    /\ \E req \in MERequests :
        LET t == [IdleTask EXCEPT !.op = "me", !.req = req, !.arrived = now,
                                  !.intent = req.intent]
        IN  IF req.intent = ""
            THEN /\ tasks' = [tasks EXCEPT ![s] =
                        [t EXCEPT !.pc = "done",
                                  !.resp = ErrorResponse(400, "Intent is required")]]
                 /\ admitted' = admitted
            ELSE /\ admitted < MaxAdmitted
                 /\ admitted' = admitted + 1
                 /\ tasks' = [tasks EXCEPT ![s] =
                        BeginEvolveThinking(t, req.agentId, req.intent,
                            req.conversationContext,
                            IF req.cycles # 0 THEN req.cycles ELSE DefaultCycles)]
    /\ UNCHANGED <<engineVars, libVars, store, now, lastUpdateTime, historyStore,
                   lastEvolutionTime, lastIntentClassificationTime, background,
                   umLog, ticks>>

\* Lines 36-52: the result of evolveThinking becomes the response.
MERespond(s) ==
    /\ tasks[s].op = "me" /\ tasks[s].pc = "evolved"
    /\ LET t == tasks[s]
       IN  tasks' = [tasks EXCEPT ![s] =
                IF ~t.thinkingResult.success
                THEN [t EXCEPT !.pc = "done",
                               !.resp = ErrorResponse(500, "Failed to evolve thinking")]
                ELSE [t EXCEPT !.pc = "done",
                               !.resp = [NoResponse EXCEPT
                                    !.status = 200, !.success = TRUE,
                                    !.intent = t.intent,
                                    !.factsAdded = t.thinkingResult.factsAdded,
                                    !.thinking = t.thinkingResult.newThinking]]]
    /\ UNCHANGED <<engineVars, libVars, store, now, lastUpdateTime, historyStore,
                   lastEvolutionTime, lastIntentClassificationTime, background,
                   umLog, served, admitted, ticks>>

\* private static MIN_INTENT_CLASSIFICATION_INTERVAL_MS = 60000
MIN_INTENT_CLASSIFICATION_INTERVAL_MS == 60000

\* private static MIN_EVOLUTION_INTERVAL_MS = 60000
MIN_EVOLUTION_INTERVAL_MS == 60000

\* history.length >= 6
MinHistoryForEvolution == 6

\* buildSystemPrompt(intent, thinking, caring): the base prompt, with the
\* memory context when there is a thinking other than '(empty)'.
BuildSystemPrompt(intent, thinking, caring) ==
    [role |-> "user", words |-> <<"prompt">>,
     context |-> IF thinking # EmptyText /\ thinking # EmptySentinel
                 THEN <<[intent |-> intent, thinking |-> thinking, caring |-> caring]>>
                 ELSE <<>>,
     intent |-> ""]

\* The converse requests: a user message in a context of an agent.
EXRequests ==
    {[NoRequest EXCEPT !.agentId = "a1", !.contextId = c, !.message = <<Msg("user", w)>>] :
        c \in {"c1", "c2"}, w \in {<<"hello">>, <<"K1">>}}
    \cup {[NoRequest EXCEPT !.agentId = "ghost", !.contextId = "c1",
                            !.message = <<Msg("user", <<"hello">>)>>]}

\* What callGPT5 does: it throws, or returns a text.
ReplyResponses == {"throw", "text"}

\* POST of the agent route, lines 455-467: the agent is read, and its
\* executor made from the stored record.
EXBegin(s) ==
    /\ TaskFree(s)
    /\ BackgroundIdle
    /\ served < MaxRequests
    /\ served' = served + 1
    /\ \E req \in EXRequests :
        LET t == [IdleTask EXCEPT !.op = "ex", !.req = req, !.arrived = now,
                                  !.turn = served + 1, !.intent = "general"]
            agent == GetAgent(store, req.agentId)
        IN  tasks' = [tasks EXCEPT ![s] =
                IF ~agent.exists
                THEN [t EXCEPT !.pc = "done", !.resp = ErrorResponse(404, "Agent not found")]
                ELSE [t EXCEPT !.pc = "ex.intent", !.agent = agent]]
    /\ UNCHANGED <<engineVars, libVars, store, now, lastUpdateTime, historyStore,
                   lastEvolutionTime, lastIntentClassificationTime, background,
                   umLog, admitted, ticks>>

\* execute, lines 76-116: within the classification interval the last intent
\* of the agent is taken; otherwise classifyIntent is called, and its time
\* recorded if it returns.  A throw is caught at line 125.
EXIntent(s) ==
    /\ tasks[s].op = "ex" /\ tasks[s].pc = "ex.intent"
    /\ LET t == tasks[s]
           key == ContextKey(t.req.agentId, t.req.contextId)
           lastClassification == ObjGet(lastIntentClassificationTime, key, 0)
           previousIntent == GetLastIntent(store, t.req.agentId)
           conversationText ==
                ConversationText(LastN(ObjGet(historyStore, key, <<>>), HistoryWindow)
                                    \o t.req.message)
       IN  IF t.agent.modelProvider # "gemini"
           THEN /\ tasks' = [tasks EXCEPT ![s] = [t EXCEPT !.pc = "ex.memory"]]
                /\ UNCHANGED <<store, lastIntentClassificationTime, umLog>>
           ELSE IF lastClassification # 0
                    /\ (now - lastClassification) < MIN_INTENT_CLASSIFICATION_INTERVAL_MS
           THEN /\ tasks' = [tasks EXCEPT ![s] =
                        [t EXCEPT !.pc = "ex.memory", !.cause = "previous-intent",
                                  !.intent = IF previousIntent # "" THEN previousIntent
                                             ELSE "general"]]
                /\ UNCHANGED <<store, lastIntentClassificationTime, umLog>>
           ELSE \E response \in ClassifierResponses :
                LET r == ClassifyIntent(store, t.req.agentId, conversationText, response)
                    c == [called |-> TRUE, raised |-> r.raised,
                          kind |-> IF r.modelCalls = 0 THEN "pattern" ELSE response.kind,
                          parsed |-> r.modelCalls = 1 /\ response.kind = "text"
                                        /\ response.intent # "",
                          intent |-> r.intent,
                          before |-> GetAgent(store, t.req.agentId).intentPatterns,
                          after |-> GetAgent(r.store, t.req.agentId).intentPatterns]
                IN  /\ store' = r.store
                    /\ lastIntentClassificationTime' =
                            IF r.raised THEN lastIntentClassificationTime
                            ELSE ObjSet(lastIntentClassificationTime, key, now)
                    /\ umLog' = IF r.raised THEN umLog
                                ELSE [umLog EXCEPT !.classified =
                                            ObjSet(@, key, r.intent)]
                    /\ tasks' = [tasks EXCEPT ![s] =
                            [t EXCEPT !.pc = "ex.memory", !.classification = c,
                                      !.conversationText = conversationText,
                                      !.cause = IF r.raised THEN "classify-raised" ELSE "",
                                      !.intent = IF r.raised THEN "general" ELSE r.intent,
                                      !.modelCalls = @ + r.modelCalls,
                                      !.writes = @ + r.writes]]
    /\ UNCHANGED <<engineVars, libVars, now, lastUpdateTime, historyStore, lastEvolutionTime,
                   background, served, admitted, ticks>>

\* execute, lines 118-148: the thinking of the intent and the caring of the
\* context are read, the history is begun with the system prompt if the
\* context has none, and the incoming message is added to it.
EXMemory(s) ==
    /\ tasks[s].op = "ex" /\ tasks[s].pc = "ex.memory"
    /\ LET t == tasks[s]
           key == ContextKey(t.req.agentId, t.req.contextId)
           loads == t.agent.modelProvider = "gemini" /\ t.cause # "classify-raised"
           thinking == IF loads THEN GetThinkingMemory(store, t.req.agentId, t.intent)
                       ELSE EmptyText
           caring == IF loads THEN GetUserCaring(store, t.req.agentId, t.req.contextId)
                     ELSE EmptyText
           begun == IF ObjHas(historyStore, key) THEN ObjGet(historyStore, key, <<>>)
                    ELSE <<BuildSystemPrompt(t.intent, thinking, caring)>>
       IN  /\ historyStore' = ObjSet(historyStore, key, begun \o t.req.message)
           /\ tasks' = [tasks EXCEPT ![s] =
                    [t EXCEPT !.pc = "ex.reply", !.loaded = loads,
                              !.currentThinking = thinking, !.currentCaring = caring]]
    /\ UNCHANGED <<engineVars, libVars, store, now, lastUpdateTime, lastEvolutionTime,
                   lastIntentClassificationTime, background, umLog, served, admitted,
                   ticks>>

\* autoEvolveAfterConversation(agentId, intent, conversation): evolveThinking
\* is called with one cycle and not awaited.  turn is the conversation turn
\* whose execute made the call.
BackgroundEvolution(agentId, intent, turn) ==
    [IdleTask EXCEPT !.op = "bg", !.pc = "bg.read", !.req.agentId = agentId,
                     !.intent = intent, !.arrived = now, !.turn = turn]

StartsEvolutionUnreplied(replied, intent, historyLength, lastEvolution) ==
    /\ intent # "" /\ intent # "general"
    /\ historyLength >= MinHistoryForEvolution
    /\ (lastEvolution = 0 \/ (now - lastEvolution) >= MIN_EVOLUTION_INTERVAL_MS)

StartsEvolutionUngated(replied, intent, historyLength, lastEvolution) ==
    /\ replied
    /\ intent # "" /\ intent # "general"
    /\ historyLength >= MinHistoryForEvolution

\* execute, lines 184-213: the trigger follows the publish of the reply at
\* line 185 inside the try block, so it is reached only when callGPT5
\* returned; it asks for an intent other than 'general', a conversation of
\* six messages and no evolution of the intent within the interval.
StartsEvolution(replied, intent, historyLength, lastEvolution) ==
    /\ replied
    /\ intent # "" /\ intent # "general"
    /\ historyLength >= MinHistoryForEvolution
    /\ (lastEvolution = 0 \/ (now - lastEvolution) >= MIN_EVOLUTION_INTERVAL_MS)

PublishedWithoutCatch(modelProvider, intent, reply) ==
    IF modelProvider # "gemini"
    THEN <<Msg("agent", <<"This model provider is not implemented yet.">>)>>
    ELSE IF reply = "throw" THEN <<>>
    ELSE <<[Msg("agent", <<"reply">>) EXCEPT !.intent = intent]>>

\* The messages the try/catch of execute (lines 150-235) publishes, given
\* what callGPT5 does: the reply of the model with the intent as metadata,
\* the fallback message when the call throws, or the message of a provider
\* other than gemini.
Published(modelProvider, intent, reply) ==
    IF modelProvider # "gemini"
    THEN <<Msg("agent", <<"This model provider is not implemented yet.">>)>>
    ELSE IF reply = "throw"
    THEN <<Msg("agent", <<"Sorry, I encountered an error while processing your request.">>)>>
    ELSE <<[Msg("agent", <<"reply">>) EXCEPT !.intent = intent]>>

\* execute, lines 150-237: the model is sent the system prompt and the
\* history (t.sent is the system prompt); its reply (or the fallback message)
\* is added to the history and published; a conversation of six messages on
\* an intent other than 'general' starts a background evolution unless one
\* was started for the intent within the evolution interval; the event bus
\* is told the task is finished.
EXReply(s) ==
    /\ tasks[s].op = "ex" /\ tasks[s].pc = "ex.reply"
    /\ LET t == tasks[s]
           key == ContextKey(t.req.agentId, t.req.contextId)
           history == ObjGet(historyStore, key, <<>>)
           evolutionKey == ContextKey(t.req.agentId, t.intent)
           lastEvolution == ObjGet(lastEvolutionTime, evolutionKey, 0)
       IN  \E reply \in ReplyResponses :
            LET messages == Published(t.agent.modelProvider, t.intent, reply)
                replied == t.agent.modelProvider = "gemini" /\ reply = "text"
                evolves == StartsEvolution(replied, t.intent,
                                           Len(history \o messages), lastEvolution)
            IN  /\ historyStore' = ObjSet(historyStore, key, history \o messages)
                /\ lastEvolutionTime' = IF evolves
                                        THEN ObjSet(lastEvolutionTime, evolutionKey, now)
                                        ELSE lastEvolutionTime
                /\ background' = IF evolves
                                 THEN Append(background,
                                             BackgroundEvolution(t.req.agentId, t.intent,
                                                                 t.turn))
                                 ELSE background
                /\ tasks' = [tasks EXCEPT ![s] =
                        [t EXCEPT !.pc = "done",
                                  !.sent = IF t.agent.modelProvider = "gemini"
                                           THEN <<BuildSystemPrompt(t.intent,
                                                    t.currentThinking, t.currentCaring)>>
                                           ELSE <<>>,
                                  !.published = @ \o messages,
                                  !.reply = IF t.agent.modelProvider = "gemini"
                                            THEN reply ELSE "",
                                  !.repliedAt = now,
                                  !.finished = @ + 1,
                                  !.modelCalls = IF t.agent.modelProvider = "gemini"
                                                 THEN @ + 1 ELSE @,
                                  !.resp = [NoResponse EXCEPT !.status = 200]]]
    /\ UNCHANGED <<engineVars, libVars, store, now, lastUpdateTime,
                   lastIntentClassificationTime, umLog, served, admitted, ticks>>

\* The background evolveThinking up to its evolve call (lines 140-168).
BgEvolveBegin(k) ==
    /\ background[k].pc = "bg.read"
    /\ background' = [background EXCEPT ![k] =
            BeginEvolveThinking(@, @.req.agentId, @.intent, "conversation", 1)]
    /\ UNCHANGED <<engineVars, libVars, store, now, lastUpdateTime, historyStore,
                   lastEvolutionTime, lastIntentClassificationTime, tasks, umLog,
                   served, admitted, ticks>>

\* One runCycle of the background evolve.
BgEvolveCycle(k) ==
    /\ background[k].pc = "et.cycle"
    /\ EvolveLoops(background[k].et.call)
    /\ \E o \in AgentOracles(background[k].et.call.mem,
                             background[k].et.call.conversationContext) :
        LET e == EvolveStep(background[k].et.call, o)
        IN  background' = [background EXCEPT ![k] =
                [@ EXCEPT !.et.call = [e EXCEPT !.rounds = <<>>],
                          !.modelCalls = @ + RoundModelCalls(e.rounds[Len(e.rounds)])]]
    /\ UNCHANGED <<engineVars, libVars, store, now, lastUpdateTime, historyStore,
                   lastEvolutionTime, lastIntentClassificationTime, tasks, umLog,
                   served, admitted, ticks>>

\* The background evolveThinking, lines 170-199.
BgEvolveFinish(k) ==
    /\ background[k].pc = "et.cycle"
    /\ ~EvolveLoops(background[k].et.call)
    /\ \E rejected \in BOOLEAN :
        IF rejected
        THEN /\ store' = store
             /\ background' = [background EXCEPT ![k] =
                    [@ EXCEPT !.pc = "evolved", !.cause = "store",
                              !.thinkingResult = EvolveThinkingFailure]]
        ELSE /\ store' = EvolveThinkingWrite(store, background[k].et)
             /\ background' = [background EXCEPT ![k] =
                    [@ EXCEPT !.pc = "evolved", !.writes = @ + 1,
                              !.thinkingResult = EvolveThinkingSuccess(background[k].et)]]
    /\ UNCHANGED <<engineVars, libVars, now, lastUpdateTime, historyStore, lastEvolutionTime,
                   lastIntentClassificationTime, tasks, umLog, served, admitted, ticks>>

\* Time passes between two requests.
TickBetweenRequests(maxRequests) ==
    /\ ticks < MaxTicks
    /\ 0 < served /\ served < maxRequests
    /\ \A s \in Slots : TaskFree(s)
    /\ BackgroundIdle
    /\ ticks' = ticks + 1
    /\ now' = now + TickStep(ticks')
    /\ UNCHANGED <<engineVars, libVars, store, lastUpdateTime, historyStore, lastEvolutionTime,
                   lastIntentClassificationTime, tasks, background, umLog, served,
                   admitted>>

Tick == TickBetweenRequests(MaxRequests)

\* The history of a conversation of two turns in which the classification
\* raised both times: the system prompt, and twice a message and its reply.
TwoTurns ==
    <<BuildSystemPrompt("general", EmptyText, EmptyText),
      Msg("user", <<"hello">>), [Msg("agent", <<"reply">>) EXCEPT !.intent = "general"],
      Msg("user", <<"hello">>), [Msg("agent", <<"reply">>) EXCEPT !.intent = "general"]>>

\* An agent a1 is deployed, on the gemini provider or on another, and has
\* had a conversation of two turns in context c1; no agent has the id ghost.
AgentInit ==
    /\ MemIdle
    /\ VerIdle
    /\ EngIdle
    /\ \E provider \in {"gemini", "openai"} :
        store = [agents |-> [a \in AgentIds |->
                                IF a = "a1" THEN DeployedAgent(provider) ELSE NoAgent],
                 list |-> {"a1"}]
    /\ now = 1
    /\ lastUpdateTime = <<>>
    /\ historyStore = <<[key |-> ContextKey("a1", "c1"), value |-> TwoTurns]>>
    /\ lastEvolutionTime = <<>>
    /\ lastIntentClassificationTime = <<>>
    /\ tasks = [s \in {1} |-> IdleTask]
    /\ background = <<>>
    /\ umLog = [arrival |-> [a \in AgentIds |-> 0], skipped |-> [a \in AgentIds |-> 0],
               caring |-> <<>>, classified |-> <<>>]
    /\ served = 0
    /\ admitted = 0
    /\ ticks = 0
    /\ LibIdle

AgentNext ==
    \/ Tick
    \/ \E s \in Slots : UMBegin(s)
    \/ \E s \in Slots : UMGetAgent(s)
    \/ \E s \in Slots : UMIntent(s)
    \/ \E s \in Slots : UMMemories(s)
    \/ \E s \in Slots : TaskEvolveCycle(s)
    \/ \E s \in Slots : TaskEvolveFinish(s)
    \/ \E s \in Slots : UMCaring(s)
    \/ \E s \in Slots : UMPersist(s)
    \/ \E s \in Slots : MEBegin(s)
    \/ \E s \in Slots : MERespond(s)
    \/ \E s \in Slots : EXBegin(s)
    \/ \E s \in Slots : EXIntent(s)
    \/ \E s \in Slots : EXMemory(s)
    \/ \E s \in Slots : EXReply(s)
    \/ \E k \in 1..Len(background) : BgEvolveBegin(k)
    \/ \E k \in 1..Len(background) : BgEvolveCycle(k)
    \/ \E k \in 1..Len(background) : BgEvolveFinish(k)

SpecAgent == AgentInit /\ [][AgentNext]_vars

\* The keywords stored under an intent in the table of an agent.
KeywordsOf(st, agentId, intent) == ObjGet(GetAgent(st, agentId).intentPatterns, intent, <<>>)

\* C1: keywords stored under an intent of the Intent Pattern Table are never
\* removed: once classifyIntent has taken the model tier and saved keywords K
\* under intent I, every keyword of K and every keyword stored before is
\* still under its intent when the update-memory request that made the
\* classification has run to completion.
C1_KeywordsNeverRemoved ==
    \A s \in Slots :
        LET t == tasks[s]
            after == t.classification.after
        IN  (t.op = "um" /\ t.pc = "done" /\ t.classification.called
                /\ t.classification.parsed) =>
                \A i \in 1..Len(after) : \A k \in 1..Len(after[i].value) :
                    Includes(KeywordsOf(store, t.req.agentId, after[i].key),
                             after[i].value[k])

C4_NoChangeNoWrite ==
    \A s \in Slots :
        LET t == tasks[s]
        IN  (t.op = "um" /\ t.pc = "done" /\ t.resp.status = 200 /\ ~t.resp.skipped
                /\ Len(t.et.call.mem.facts) = t.et.seedFacts
                /\ t.caringFacts = 0) =>
                t.writes = 0

\* C7: classifyIntent never raises to its caller; when the model call fails
\* or the response has no INTENT line, it returns 'general' and leaves the
\* Intent Pattern Table as it was.
C7_ClassifyNeverRaises ==
    \A s \in Slots :
        LET c == tasks[s].classification
        IN  c.called =>
                /\ ~c.raised
                /\ (c.kind = "throw" \/ (c.kind = "text" /\ ~c.parsed)) =>
                        (c.intent = "general" /\ c.after = c.before)

\* The responses the evolve-thinking route gives on an internal failure.
GenericFailureResponses ==
    {ErrorResponse(500, "Failed to evolve thinking"),
     ErrorResponse(500, "Internal server error")}

\* C8: the manual evolve of an agent id that has no record answers with an
\* explicit not-found outcome, which is not the answer given on a generic
\* internal failure, and writes nothing to the store.
C8_UnknownAgentNotFound ==
    \A s \in Slots :
        LET t == tasks[s]
        IN  (t.op = "me" /\ t.pc = "done" /\ t.cause = "not-found") =>
                /\ t.writes = 0
                /\ t.resp \notin GenericFailureResponses

\* C6: the User Knowledge that update-memory persisted for a conversation
\* (under the supplied username, or under the context identifier when there
\* is none) is the User Knowledge that a later converse turn of that
\* conversation fetches: the key written is the key read.
C6_CaringReadBack ==
    \A s \in Slots :
        LET t == tasks[s]
            key == ContextKey(t.req.agentId, t.req.contextId)
        IN  (t.op = "ex" /\ t.loaded /\ ObjHas(umLog.caring, key)) =>
                t.currentCaring = ObjGet(umLog.caring, key, <<>>).value

\* C22: in the converse operation, whenever the agent holds non-empty topic
\* knowledge for the resolved intent or non-empty user knowledge for the
\* conversing user, that knowledge is included in the system prompt sent to
\* the model for the turn; user knowledge is included also when the topic
\* knowledge is empty.
C22_KnowledgeInSystemPrompt ==
    \A s \in Slots :
        (tasks[s].op = "ex" /\ tasks[s].pc = "done" /\ tasks[s].sent # <<>>
            /\ background = <<>>) =>
            LET t == tasks[s]
                agent == GetAgent(store, t.req.agentId)
                thinking == ObjGet(agent.thinkingMemories, t.intent, EmptyText)
                caring == ObjGet(agent.caringMemories, t.req.contextId, EmptyText)
                included == t.sent[1].context
            IN  /\ thinking # EmptyText =>
                       (included # <<>> /\ included[1].thinking = thinking)
                /\ caring # EmptyText =>
                       (included # <<>> /\ included[1].caring = caring)

\* C26: every converse (execute) call publishes an agent reply and then
\* signals finished exactly once; if the model call that produces the reply
\* throws, the published reply is the apologetic fallback message and no
\* error propagates to the caller.
C26_OneReplyThenFinished ==
    \A s \in Slots :
        LET t == tasks[s]
        IN  /\ (t.op = "ex" /\ t.agent.exists) =>
                   /\ Len(t.published) = t.finished
                   /\ t.finished <= 1
                   /\ t.pc = "done" =>
                          /\ t.finished = 1
                          /\ t.published[1].role = "agent"
                          /\ t.resp.status = 200
                          /\ t.reply = "throw" =>
                                 t.published[1].words =
                                    <<"Sorry, I encountered an error while processing your request.">>

\* C26 witness: an execute call whose reply call threw has published the
\* fallback message and signalled finished.
C26_Witness ==
    \E s \in Slots :
        /\ tasks[s].op = "ex"
        /\ tasks[s].pc = "done"
        /\ tasks[s].reply = "throw"
        /\ Len(tasks[s].published) = 1
        /\ tasks[s].finished = 1

\* C27: a background evolution is started only once the reply of its turn is
\* published, the turn does not wait for it, and whatever becomes of it (a
\* store failure included) the turn keeps its one published reply of the
\* model and publishes no further message.
C27_EvolutionAfterReply ==
    \A k \in DOMAIN background : \A s \in Slots :
        (tasks[s].op = "ex" /\ tasks[s].turn = background[k].turn) =>
            /\ tasks[s].pc = "done"
            /\ tasks[s].reply = "text"
            /\ tasks[s].published = Published("gemini", background[k].intent, "text")
            /\ tasks[s].finished = 1
            /\ tasks[s].resp.status = 200

\* A background evolution that failed while the task of its turn still shows
\* what it published.
C27_Witness ==
    \E k \in DOMAIN background : \E s \in Slots :
        /\ tasks[s].op = "ex" /\ tasks[s].turn = background[k].turn
        /\ background[k].pc = "evolved"
        /\ background[k].cause # ""
        /\ Len(tasks[s].published) = 1

\* A turn that is finished while its background evolution has not yet read
\* the agent.
C27_NotAwaited ==
    \E k \in DOMAIN background : \E s \in Slots :
        /\ tasks[s].op = "ex" /\ tasks[s].turn = background[k].turn
        /\ tasks[s].pc = "done"
        /\ background[k].pc = "bg.read"

\* C28: an evolve call on a memory seeded with at least one fact, every model
\* call of which failed, returns after exactly one cycle, and the text it
\* returns is the export of the seeded memory.
C28_FailedCallsLeaveFacts ==
    (/\ eng.pc = "returned"
     /\ NewEngineMemory(eng.seed).facts # <<>>
     /\ \A r \in DOMAIN eng.call.rounds : eng.call.rounds[r].allFailed) =>
        /\ Len(eng.call.rounds) = 1
        /\ eng.call.mem.facts = NewEngineMemory(eng.seed).facts
        /\ eng.result = ExportFacts(NewEngineMemory(eng.seed))

\* An evolve call asked for several cycles on a seeded memory has returned
\* after one cycle whose model call threw.
C28_Witness ==
    /\ eng.pc = "returned"
    /\ eng.call.cycles > 1
    /\ NewEngineMemory(eng.seed).facts # <<>>
    /\ Len(eng.call.rounds) = 1
    /\ eng.call.rounds[1].allFailed
    /\ eng.result = ExportFacts(NewEngineMemory(eng.seed))

(***************************************************************************)
(* SpecWriters: evolveThinking calls and saveIntentPattern calls on the    *)
(* agent a1 that overlap, each step taken at an await of its call          *)
(***************************************************************************)
\* The most calls of a behaviour.
MaxWriters == 3

WriterSlots == {1, 2}

WriterIntents == {"i1", "i2"}

WriterKeywords == {<<"k1">>, <<"k2">>}

\* The call of the slot has returned, or there was none.
WriterFree(s) == tasks[s].pc \in {"idle", "done", "evolved", "saved"}

\* The agent a1 is deployed and has no memory; no call was made.
WritersInit ==
    /\ MemIdle
    /\ VerIdle
    /\ EngIdle
    /\ LibIdle
    /\ store = [agents |-> [a \in AgentIds |->
                                IF a = "a1" THEN DeployedAgent("gemini") ELSE NoAgent],
                list |-> {"a1"}]
    /\ now = 1
    /\ lastUpdateTime = <<>>
    /\ historyStore = <<>>
    /\ lastEvolutionTime = <<>>
    /\ lastIntentClassificationTime = <<>>
    /\ tasks = [s \in WriterSlots |-> IdleTask]
    /\ background = <<>>
    /\ umLog = [arrival |-> [a \in AgentIds |-> 0], skipped |-> [a \in AgentIds |-> 0],
               caring |-> <<>>, classified |-> <<>>]
    /\ served = 0
    /\ admitted = 0
    /\ ticks = 0

\* evolveThinking(agentId, intent, conversationContext, 1) up to its evolve
\* call: the record of the agent is read.
WriterEvolve(s) ==
    /\ WriterFree(s)
    /\ served < MaxWriters
    /\ served' = served + 1
    /\ \E intent \in WriterIntents :
        tasks' = [tasks EXCEPT ![s] =
            BeginEvolveThinking([IdleTask EXCEPT !.op = "me", !.req.agentId = "a1",
                                                 !.intent = intent],
                                "a1", intent, "conversation", 1)]
    /\ UNCHANGED <<engineVars, libVars, store, now, lastUpdateTime, historyStore,
                   lastEvolutionTime, lastIntentClassificationTime, background,
                   umLog, admitted, ticks>>

\* saveIntentPattern(agentId, intent, keywords), called by classifyIntent
\* with what the model answered, up to the return of its getAgent.
WriterSaveRead(s) ==
    /\ WriterFree(s)
    /\ served < MaxWriters
    /\ served' = served + 1
    /\ \E intent \in WriterIntents, keywords \in WriterKeywords :
        tasks' = [tasks EXCEPT ![s] =
            [IdleTask EXCEPT !.op = "save",
                             !.pc = IF GetAgent(store, "a1").exists
                                    THEN "save.write" ELSE "saved",
                             !.req.agentId = "a1", !.intent = intent,
                             !.keywords = keywords,
                             !.agent = GetAgent(store, "a1")]]
    /\ UNCHANGED <<engineVars, libVars, store, now, lastUpdateTime, historyStore,
                   lastEvolutionTime, lastIntentClassificationTime, background,
                   umLog, admitted, ticks>>

\* saveIntentPattern from its setAgent on.
WriterSaveWrite(s) ==
    /\ tasks[s].op = "save" /\ tasks[s].pc = "save.write"
    /\ store' = SaveIntentPatternWrite(store, tasks[s].req.agentId, tasks[s].agent,
                                       tasks[s].intent, tasks[s].keywords)
    /\ tasks' = [tasks EXCEPT ![s] = [@ EXCEPT !.pc = "saved", !.writes = @ + 1]]
    /\ UNCHANGED <<engineVars, libVars, now, lastUpdateTime, historyStore,
                   lastEvolutionTime, lastIntentClassificationTime, background,
                   umLog, served, admitted, ticks>>

WritersNext ==
    \/ \E s \in Slots : WriterEvolve(s)
    \/ \E s \in Slots : TaskEvolveCycle(s)
    \/ \E s \in Slots : TaskEvolveFinish(s)
    \/ \E s \in Slots : WriterSaveRead(s)
    \/ \E s \in Slots : WriterSaveWrite(s)

SpecWriters == WritersInit /\ [][WritersNext]_vars

\* C29: a write of the record of an agent by evolveThinking or by
\* saveIntentPattern stores the record the call read, changed in the one
\* entry of the call: whatever other calls have written since the read is
\* replaced by what the call had read.
C29_WholeRecordWritten ==
    [][\A s \in Slots :
        (tasks'[s].writes = tasks[s].writes + 1) =>
            /\ tasks[s].op = "me" =>
                    /\ GetAgent(store', "a1").intentPatterns
                            = tasks[s].et.agent.intentPatterns
                    /\ GetAgent(store', "a1").thinkingMemories
                            = ObjSet(tasks[s].et.agent.thinkingMemories, tasks[s].intent,
                                     tasks'[s].thinkingResult.newThinking)
            /\ tasks[s].op = "save" =>
                    GetAgent(store', "a1").thinkingMemories
                        = tasks[s].agent.thinkingMemories]_vars

\* An evolveThinking call has returned the facts it stored under its intent,
\* and the stored record holds no knowledge of that intent: a
\* saveIntentPattern call that had read the record before wrote it after.
C29_Witness ==
    \E s \in Slots :
        /\ tasks[s].op = "me" /\ tasks[s].pc = "evolved"
        /\ tasks[s].thinkingResult.success
        /\ tasks[s].thinkingResult.newThinking # EmptyText
        /\ ~ObjHas(GetAgent(store, "a1").thinkingMemories, tasks[s].intent)

\* A saveIntentPattern call has returned, and the stored table has no entry
\* of its intent: an evolveThinking call that had read the record before
\* wrote it after.
C29_KeywordLost ==
    \E s \in Slots :
        /\ tasks[s].op = "save" /\ tasks[s].pc = "saved"
        /\ ~ObjHas(GetAgent(store, "a1").intentPatterns, tasks[s].intent)

(***************************************************************************)
(* SpecManual: evolve-thinking requests on the agent a1, one after the     *)
(* other, against the answers of the model the engine admits               *)
(***************************************************************************)
\* The most requests of a behaviour.
MaxManualRequests == 3

\* The most requests of a behaviour that reach evolveThinking.
MaxManualEvolves == 2

\* The model calls of one runCycle: any answer to the initial proposition,
\* to the generator and to the verifier, of at most one candidate.
ManualOracles(m, conversationContext) ==
    {o \in CycleOracles(m, conversationContext) :
        Len(GenerateNextPropositions(o.gen)) <= MaxAgentCandidates}

\* The agent a1 is deployed and has no memory; no request was made.
ManualInit ==
    /\ MemIdle
    /\ VerIdle
    /\ EngIdle
    /\ LibIdle
    /\ store = [agents |-> [a \in AgentIds |->
                                IF a = "a1" THEN DeployedAgent("gemini") ELSE NoAgent],
                list |-> {"a1"}]
    /\ now = 1
    /\ lastUpdateTime = <<>>
    /\ historyStore = <<>>
    /\ lastEvolutionTime = <<>>
    /\ lastIntentClassificationTime = <<>>
    /\ tasks = [s \in {1} |-> IdleTask]
    /\ background = <<>>
    /\ umLog = [arrival |-> [a \in AgentIds |-> 0], skipped |-> [a \in AgentIds |-> 0],
               caring |-> <<>>, classified |-> <<>>]
    /\ served = 0
    /\ admitted = 0
    /\ ticks = 0

\* POST evolve-thinking, lines 13-34, and evolveThinking up to its evolve.
ManualBegin(s) ==
    /\ TaskFree(s)
    /\ served < MaxManualRequests
    /\ served' = served + 1
    /\ \E req \in MERequests :
        LET t == [IdleTask EXCEPT !.op = "me", !.req = req, !.arrived = now,
                                  !.intent = req.intent]
        IN  IF req.intent = ""
            THEN /\ tasks' = [tasks EXCEPT ![s] =
                        [t EXCEPT !.pc = "done",
                                  !.resp = ErrorResponse(400, "Intent is required")]]
                 /\ admitted' = admitted
            ELSE /\ admitted < MaxManualEvolves
                 /\ admitted' = admitted + 1
                 /\ tasks' = [tasks EXCEPT ![s] =
                        BeginEvolveThinking(t, req.agentId, req.intent,
                            req.conversationContext,
                            IF req.cycles # 0 THEN req.cycles ELSE DefaultCycles)]
    /\ UNCHANGED <<engineVars, libVars, store, now, lastUpdateTime, historyStore,
                   lastEvolutionTime, lastIntentClassificationTime, background,
                   umLog, ticks>>

\* One runCycle of the evolve call of evolveThinking (line 164).
ManualCycle(s) ==
    /\ tasks[s].pc = "et.cycle"
    /\ EvolveLoops(tasks[s].et.call)
    /\ \E o \in ManualOracles(tasks[s].et.call.mem, tasks[s].et.call.conversationContext) :
        LET e == EvolveStep(tasks[s].et.call, o)
        IN  tasks' = [tasks EXCEPT ![s] =
                [@ EXCEPT !.et.call = [e EXCEPT !.rounds = <<>>],
                          !.modelCalls = @ + RoundModelCalls(e.rounds[Len(e.rounds)])]]
    /\ UNCHANGED <<engineVars, libVars, store, now, lastUpdateTime, historyStore,
                   lastEvolutionTime, lastIntentClassificationTime, background,
                   umLog, served, admitted, ticks>>

ManualNext ==
    \/ \E s \in Slots : ManualBegin(s)
    \/ \E s \in Slots : ManualCycle(s)
    \/ \E s \in Slots : TaskEvolveFinish(s)
    \/ \E s \in Slots : MERespond(s)

SpecManual == ManualInit /\ [][ManualNext]_vars

\* evolve-thinking route, lines 47-50: text.split('\n').filter(f => f.trim()).length,
\* the number of facts of a knowledge text, 0 for '(empty)'.
FactCount(text) ==
    IF text = EmptySentinel THEN 0
    ELSE Len(SelectSeq(Split(text), LAMBDA f : Trim(f) # ""))

\* C30: the factsAdded of a successful evolve-thinking response is the number
\* of facts of the stored knowledge of the intent after the call minus the
\* number before it, and is not negative.
C30_FactsAddedIsStoredDifference ==
    \A s \in Slots :
        LET t == tasks[s]
            stored == ObjGet(GetAgent(store, t.req.agentId).thinkingMemories,
                             t.intent, EmptyText)
        IN  (t.op = "me" /\ t.pc = "done" /\ t.resp.success) =>
                /\ t.resp.factsAdded
                        = FactCount(stored) - FactCount(t.et.previousThinking)
                /\ t.resp.factsAdded >= 0

\* C30, the sign alone: the factsAdded of a successful response is not
\* negative.
C30_FactsAddedNotNegative ==
    \A s \in Slots :
        (tasks[s].op = "me" /\ tasks[s].pc = "done" /\ tasks[s].resp.success) =>
            tasks[s].resp.factsAdded >= 0

(***************************************************************************)
(* Agent route: deploy and DELETE  (src/unnamed/part_006:277-557)          *)
(***************************************************************************)
\* const sampleAgentId = 'socrates-web3-tutor'
sampleAgentId == "socrates-web3-tutor"

\* The agent ids of the requests on the route.
RouteIds == {sampleAgentId, "a1"}

\* hasAgent(agentId): redis.exists of the key of the record.
HasAgent(st, agentId) == GetAgent(st, agentId).exists

\* redis.del of the key of the record.
DelRecord(st, agentId) == [st EXCEPT !.agents[agentId] = NoAgent]

\* deleteAgent(agentId): redis.del of the record, redis.srem of the id.
DeleteAgent(st, agentId) ==
    [agents |-> [st.agents EXCEPT ![agentId] = NoAgent],
     list   |-> st.list \ {agentId}]

\* ensureSampleAgent(request): the store it leaves.  The sample agent is set
\* when the flag is down and the store holds no record of it.
EnsureSampleAgent(st, initialized) ==
    IF initialized \/ HasAgent(st, sampleAgentId) THEN st
    ELSE SetAgent(st, sampleAgentId, DeployedAgent("gemini"))

\* What the store calls of a DELETE do: all return, or one of them throws.
DeleteOutcomes == {"ok", "has-throws", "del-throws", "srem-throws"}

DeleteUnprotected(st, agentId, outcome) ==
    IF outcome = "has-throws"
    THEN [store |-> st, resp |-> ErrorResponse(500, "Failed to delete agent")]
    ELSE IF ~HasAgent(st, agentId)
    THEN [store |-> st, resp |-> ErrorResponse(404, "Agent not found")]
    ELSE IF outcome = "del-throws"
    THEN [store |-> st, resp |-> ErrorResponse(500, "Failed to delete agent")]
    ELSE IF outcome = "srem-throws"
    THEN [store |-> DelRecord(st, agentId),
          resp |-> ErrorResponse(500, "Failed to delete agent")]
    ELSE [store |-> DeleteAgent(st, agentId),
          resp |-> [NoResponse EXCEPT !.status = 200, !.success = TRUE]]

\* DELETE, lines 527-557: [store, resp].  The sample agent is refused before
\* the store is asked anything; an error of the store is answered 500.
Delete(st, agentId, outcome) ==
    IF agentId = sampleAgentId
    THEN [store |-> st, resp |-> ErrorResponse(403, "Cannot delete the sample agent")]
    ELSE IF outcome = "has-throws"
    THEN [store |-> st, resp |-> ErrorResponse(500, "Failed to delete agent")]
    ELSE IF ~HasAgent(st, agentId)
    THEN [store |-> st, resp |-> ErrorResponse(404, "Agent not found")]
    ELSE IF outcome = "del-throws"
    THEN [store |-> st, resp |-> ErrorResponse(500, "Failed to delete agent")]
    ELSE IF outcome = "srem-throws"
    THEN [store |-> DelRecord(st, agentId),
          resp |-> ErrorResponse(500, "Failed to delete agent")]
    ELSE [store |-> DeleteAgent(st, agentId),
          resp |-> [NoResponse EXCEPT !.status = 200, !.success = TRUE]]

\* The most requests on the route in a behaviour.
MaxRouteRequests == 4

\* No request is being served in the slot.
RouteFree(s) == tasks[s].pc \in {"idle", "done", "evolved", "saved"}

\* POST deploy, lines 391-452: ensureSampleAgent, then the record of the
\* agent is set from the body; a body that does not parse is answered 500.
DeployRequest(s) ==
    /\ RouteFree(s)
    /\ served < MaxRouteRequests
    /\ served' = served + 1
    /\ sampleAgentInitialized' = TRUE
    /\ \E agentId \in RouteIds, provider \in {"gemini", "openai"}, parsed \in BOOLEAN :
        LET st == EnsureSampleAgent(store, sampleAgentInitialized)
            t == [IdleTask EXCEPT !.op = "deploy", !.pc = "done",
                                  !.req.agentId = agentId, !.arrived = now]
        IN  IF parsed
            THEN /\ store' = SetAgent(st, agentId, DeployedAgent(provider))
                 /\ deleted' = deleted \ {agentId}
                 /\ tasks' = [tasks EXCEPT ![s] =
                        [t EXCEPT !.resp = [NoResponse EXCEPT !.status = 200,
                                                              !.success = TRUE]]]
            ELSE /\ store' = st
                 /\ deleted' = deleted
                 /\ tasks' = [tasks EXCEPT ![s] =
                        [t EXCEPT !.resp = ErrorResponse(500, "Failed to deploy agent")]]
    /\ UNCHANGED <<engineVars, cls, gw, snap, now, lastUpdateTime, historyStore,
                   lastEvolutionTime, lastIntentClassificationTime, background,
                   umLog, admitted, ticks>>

\* DELETE of the agent route.
DeleteRequest(s) ==
    /\ RouteFree(s)
    /\ served < MaxRouteRequests
    /\ served' = served + 1
    /\ \E agentId \in RouteIds, outcome \in DeleteOutcomes :
        LET r == Delete(store, agentId, outcome)
        IN  /\ store' = r.store
            /\ deleted' = IF r.resp.success THEN deleted \cup {agentId} ELSE deleted
            /\ tasks' = [tasks EXCEPT ![s] =
                    [IdleTask EXCEPT !.op = "delete", !.pc = "done",
                                     !.req.agentId = agentId, !.arrived = now,
                                     !.resp = r.resp]]
    /\ UNCHANGED <<engineVars, cls, gw, snap, sampleAgentInitialized, now, lastUpdateTime,
                   historyStore, lastEvolutionTime, lastIntentClassificationTime,
                   background, umLog, admitted, ticks>>

(***************************************************************************)
(* SpecDelete: deploy and DELETE requests on the agent route, one after    *)
(* the other                                                               *)
(***************************************************************************)
\* The process has started on an empty store.
DeleteInit ==
    /\ MemIdle
    /\ VerIdle
    /\ EngIdle
    /\ LibIdle
    /\ store = [agents |-> [a \in RouteIds |-> NoAgent], list |-> {}]
    /\ now = 1
    /\ lastUpdateTime = <<>>
    /\ historyStore = <<>>
    /\ lastEvolutionTime = <<>>
    /\ lastIntentClassificationTime = <<>>
    /\ tasks = [s \in {1} |-> IdleTask]
    /\ background = <<>>
    /\ umLog = [arrival |-> [a \in AgentIds |-> 0], skipped |-> [a \in AgentIds |-> 0],
               caring |-> <<>>, classified |-> <<>>]
    /\ served = 0
    /\ admitted = 0
    /\ ticks = 0

DeleteNext ==
    \/ \E s \in Slots : DeployRequest(s)
    \/ \E s \in Slots : DeleteRequest(s)

SpecDelete == DeleteInit /\ [][DeleteNext]_vars

DeleteRaceInit ==
    /\ MemIdle
    /\ VerIdle
    /\ EngIdle
    /\ LibIdle
    /\ store = [agents |-> [a \in RouteIds |->
                                IF a = "a1" THEN DeployedAgent("gemini") ELSE NoAgent],
                list |-> {"a1"}]
    /\ now = 1
    /\ lastUpdateTime = <<>>
    /\ historyStore = <<>>
    /\ lastEvolutionTime = <<>>
    /\ lastIntentClassificationTime = <<>>
    /\ tasks = [s \in WriterSlots |-> IdleTask]
    /\ background = <<>>
    /\ umLog = [arrival |-> [a \in AgentIds |-> 0], skipped |-> [a \in AgentIds |-> 0],
               caring |-> <<>>, classified |-> <<>>]
    /\ served = 0
    /\ admitted = 0
    /\ ticks = 0

DeleteRaceNext ==
    \/ \E s \in Slots : WriterEvolve(s)
    \/ \E s \in Slots : TaskEvolveCycle(s)
    \/ \E s \in Slots : TaskEvolveFinish(s)
    \/ \E s \in Slots : WriterSaveRead(s)
    \/ \E s \in Slots : WriterSaveWrite(s)
    \/ \E s \in Slots : DeployRequest(s)
    \/ \E s \in Slots : DeleteRequest(s)

SpecDeleteRace == DeleteRaceInit /\ [][DeleteRaceNext]_vars

\* C40: an agent a DELETE has removed, and that no deploy has set since, has
\* no record in the store and its id is not in the agent list.
C40_DeletedStaysAbsent ==
    \A agentId \in deleted :
        ~HasAgent(store, agentId) /\ agentId \notin store.list

(***************************************************************************)
(* SpecSnapshot: a caller of getContext that keeps the contexts it was     *)
(* returned and pushes onto their lists, while the memory is updated       *)
(*                                                                         *)
(* A list a caller holds is either an array of its own or the array of a   *)
(* path of the memory (the same object).                                   *)
(***************************************************************************)
\* A new array holding `value`.
OwnList(value) == [own |-> TRUE, value |-> value, pathId |-> 0]

\* The array of propositions of the path pathId of the memory.
SameList(pathId) == [own |-> FALSE, value |-> <<>>, pathId |-> pathId]

GetContextSharingLists(m) ==
    [sharedFacts |-> OwnList(m.facts),
     paths |-> [i \in 1..Len(m.paths) |->
                    [id |-> m.paths[i].id,
                     propositions |-> SameList(m.paths[i].id),
                     confidence |-> m.paths[i].confidence]]]

\* getContext(), lines 55-69, as the arrays it returns: Array.from of the
\* set, and for every path a new object with [...path.propositions].
GetContextLists(m) ==
    [sharedFacts |-> OwnList(m.facts),
     paths |-> [i \in 1..Len(m.paths) |->
                    [id |-> m.paths[i].id,
                     propositions |-> OwnList(m.paths[i].propositions),
                     confidence |-> m.paths[i].confidence]]]

\* What a list holds, the memory being m.
ListValue(m, list) ==
    IF list.own THEN list.value
    ELSE IF \E i \in 1..Len(m.paths) : m.paths[i].id = list.pathId
    THEN m.paths[CHOOSE i \in 1..Len(m.paths) : m.paths[i].id = list.pathId].propositions
    ELSE <<>>

\* What a context a caller holds reads as, the memory being m.
ContextValue(m, c) ==
    [sharedFacts |-> ListValue(m, c.sharedFacts),
     paths |-> [i \in 1..Len(c.paths) |->
                    [id |-> c.paths[i].id,
                     propositions |-> ListValue(m, c.paths[i].propositions),
                     confidence |-> c.paths[i].confidence]]]

\* list.push(x) by the caller: [mem, list].
PushList(m, list, x) ==
    IF list.own
    THEN [mem |-> m, list |-> [list EXCEPT !.value = Append(@, x)]]
    ELSE [mem |-> [m EXCEPT !.paths =
                    [i \in 1..Len(m.paths) |->
                        IF m.paths[i].id = list.pathId
                        THEN [m.paths[i] EXCEPT !.propositions = Append(@, x)]
                        ELSE m.paths[i]]],
          list |-> list]

\* The most calls and pushes of a behaviour.
MaxSnapOps == 4

\* The most contexts the caller keeps.
MaxContexts == 2

\* What the caller pushes: a string the memory never holds.
CallerStrings == {"mine"}

SnapInit ==
    /\ \E ip \in Facts \cup {""} : memory = NewThinkingMemory(ip)
    /\ memOp = NoOp
    /\ VerIdle
    /\ EngIdle
    /\ AgentIdle
    /\ LibIdle

\* snap.expected[k] is history: the context k as it was returned, with the
\* pushes the caller made on it; snap.intact tells that no push of the
\* caller has changed the memory.
SnapGetContext ==
    /\ snap.ops < MaxSnapOps
    /\ Len(snap.contexts) < MaxContexts
    /\ snap' = [snap EXCEPT !.contexts = Append(@, GetContextLists(memory)),
                            !.expected = Append(@, GetContext(memory)),
                            !.ops = @ + 1]
    /\ UNCHANGED <<engineVars, agentVars, cls, gw, routeVars>>

\* context.sharedFacts.push(x) on a context the caller holds.
SnapPushSharedFacts ==
    /\ snap.ops < MaxSnapOps
    /\ \E k \in 1..Len(snap.contexts), x \in CallerStrings :
        LET r == PushList(memory, snap.contexts[k].sharedFacts, x)
        IN  /\ memory' = r.mem
            /\ snap' = [snap EXCEPT !.contexts[k].sharedFacts = r.list,
                                    !.expected[k].sharedFacts = Append(@, x),
                                    !.intact = @ /\ r.mem = memory,
                                    !.ops = @ + 1]
    /\ UNCHANGED <<memOp, verCall, eng, agentVars, cls, gw, routeVars>>

\* context.paths[i].propositions.push(x) on a context the caller holds.
SnapPushPropositions ==
    /\ snap.ops < MaxSnapOps
    /\ \E k \in 1..Len(snap.contexts), x \in CallerStrings :
        \E i \in 1..Len(snap.contexts[k].paths) :
            LET r == PushList(memory, snap.contexts[k].paths[i].propositions, x)
            IN  /\ memory' = r.mem
                /\ snap' = [snap EXCEPT !.contexts[k].paths[i].propositions = r.list,
                                        !.expected[k].paths[i].propositions = Append(@, x),
                                        !.intact = @ /\ r.mem = memory,
                                        !.ops = @ + 1]
    /\ UNCHANGED <<memOp, verCall, eng, agentVars, cls, gw, routeVars>>

\* addVerifiedFact(fact), addPropositionToPath(pathId, proposition) or
\* createNewPath(basePropositions) on the memory.
SnapUpdate ==
    /\ snap.ops < MaxSnapOps
    /\ \/ \E f \in Facts : memory' = AddVerifiedFact(memory, f)
       \/ \E f \in Facts, pid \in 1..2 : memory' = AddPropositionToPath(memory, pid, f)
       \/ \E base \in SeqsUpTo(Facts, 1) : memory' = CreateNewPath(memory, base).mem
    /\ snap' = [snap EXCEPT !.ops = @ + 1]
    /\ UNCHANGED <<memOp, verCall, eng, agentVars, cls, gw, routeVars>>

SnapNext ==
    \/ SnapGetContext
    \/ SnapPushSharedFacts
    \/ SnapPushPropositions
    \/ SnapUpdate

SpecSnapshot == SnapInit /\ [][SnapNext]_vars

\* C32: no push of a caller onto a list of a context getContext returned
\* has changed the facts or the paths of the memory, and every context the
\* caller holds reads as it was returned (with the caller's own pushes),
\* whatever updates the memory has had since.
C32_DefensiveSnapshot ==
    /\ snap.intact
    /\ \A k \in 1..Len(snap.contexts) :
            ContextValue(memory, snap.contexts[k]) = snap.expected[k]

\* The caller holds a context onto a path of which it has pushed, the memory
\* has been updated since the context was returned, and neither shows in
\* the other.
C32_Witness ==
    \E k \in 1..Len(snap.contexts) : \E i \in 1..Len(snap.contexts[k].paths) :
        /\ Includes(ContextValue(memory, snap.contexts[k]).paths[i].propositions, "mine")
        /\ \A j \in 1..Len(memory.paths) : ~Includes(memory.paths[j].propositions, "mine")
        /\ \E f \in Facts :
            /\ Includes(memory.facts, f)
            /\ ~Includes(ContextValue(memory, snap.contexts[k]).sharedFacts, f)

\* C33: whenever the gateway takes a call from its queue, no HIGH-priority
\* call is left in the queue if the call is a LOW-priority one, and every
\* call of its priority left in the queue was enqueued after it (the ids
\* number the calls in the order of their enqueuing).
C33_HighFirstThenFifo ==
    [][Len(gw'.begun) = Len(gw.begun) + 1 =>
        LET c == gw'.begun[Len(gw'.begun)]
        IN  /\ c.priority = "LOW" =>
                    \A i \in 1..Len(gw'.queue) : gw'.queue[i].priority # "HIGH"
            /\ \A i \in 1..Len(gw'.queue) :
                    gw'.queue[i].priority = c.priority => gw'.queue[i].id > c.id]_vars

\* A HIGH-priority call was taken from the queue before a LOW-priority call
\* enqueued before it, and two LOW-priority calls that waited together were
\* taken in the order of their enqueuing.
C33_Witness ==
    /\ \E i, j \in 1..Len(gw.begun) :
        /\ i < j
        /\ gw.begun[i].priority = "HIGH" /\ gw.begun[j].priority = "LOW"
        /\ gw.begun[i].id > gw.begun[j].id
    /\ \E i, j \in 1..Len(gw.begun) :
        /\ i < j
        /\ gw.begun[i].priority = "LOW" /\ gw.begun[j].priority = "LOW"
        /\ gw.begun[i].id + 1 < gw.begun[j].id

\* The calls whose execution has begun and whose promise is not settled.
Executing(g) == {g.begun[i].id : i \in 1..Len(g.begun)} \ g.settled

\* C39: at most one call of the gateway is executing at any time, and it is
\* the call the one active loop of processQueue is awaiting.
C39_OneCallExecuting ==
    /\ Cardinality(Executing(gw)) <= 1
    /\ Executing(gw) # {} => gw.processing /\ Executing(gw) = {gw.inFlight.id}

\* A retry timer has fired while a call was in flight, its processQueue
\* returning at once; a call is executing and another waits in the queue.
C39_Witness ==
    /\ gw.busy
    /\ Cardinality(Executing(gw)) = 1
    /\ gw.queue # <<>>

\* A call was enqueued during a rate-limit pause: two retry timers are
\* pending, and no call is executing.
C39_WitnessPause ==
    /\ Len(gw.timers) = 2
    /\ ~gw.processing
    /\ Executing(gw) = {}

(***************************************************************************)
(* SpecConverse: conversation turns on the agent a1, time passing between  *)
(* the turns and while a turn awaits the reply of the model                *)
(***************************************************************************)
\* Time passes while execute awaits callGPT5 (line 172).
TickInCall ==
    /\ ticks < MaxTicks
    /\ \E s \in Slots : tasks[s].op = "ex" /\ tasks[s].pc = "ex.reply"
    /\ ticks' = ticks + 1
    /\ now' = now + TickStep(ticks')
    /\ UNCHANGED <<engineVars, libVars, store, lastUpdateTime, historyStore, lastEvolutionTime,
                   lastIntentClassificationTime, tasks, background, umLog, served,
                   admitted>>

ConverseNext ==
    \/ Tick
    \/ TickInCall
    \/ \E s \in Slots : EXBegin(s)
    \/ \E s \in Slots : EXIntent(s)
    \/ \E s \in Slots : EXMemory(s)
    \/ \E s \in Slots : EXReply(s)
    \/ \E k \in 1..Len(background) : BgEvolveBegin(k)
    \/ \E k \in 1..Len(background) : BgEvolveCycle(k)
    \/ \E k \in 1..Len(background) : BgEvolveFinish(k)

SpecConverse == AgentInit /\ [][ConverseNext]_vars

\* Two background evolutions of the same agent and intent.
SameEvolutionKey(b1, b2) ==
    b1.req.agentId = b2.req.agentId /\ b1.intent = b2.intent

\* Any two starts of a background evolution for the same agent and intent
\* are at least the evolution interval apart (arrived is the time of the start).
StartsAreApart ==
    \A k, l \in 1..Len(background) :
        (k < l /\ SameEvolutionKey(background[k], background[l])) =>
            background[l].arrived - background[k].arrived >= MIN_EVOLUTION_INTERVAL_MS

\* C34: any two starts of a background evolution for the same agent and
\* intent are at least 60 seconds apart, and a turn that arrives less than
\* 60 seconds after such a start starts none.
C34_OncePerInterval ==
    /\ StartsAreApart
    /\ \A s \in Slots : \A k, l \in 1..Len(background) :
            (/\ tasks[s].op = "ex" /\ tasks[s].turn = background[l].turn
             /\ k < l /\ SameEvolutionKey(background[k], background[l])) =>
                tasks[s].arrived - background[k].arrived >= MIN_EVOLUTION_INTERVAL_MS

\* C34, the gate being at the publish of the reply: any two starts of a
\* background evolution for the same agent and intent are at least 60
\* seconds apart, and a turn whose reply is published less than 60 seconds
\* after such a start starts none.
C34_OncePerIntervalAtReply ==
    /\ StartsAreApart
    /\ \A s \in Slots : \A k \in 1..Len(background) :
            (/\ tasks[s].op = "ex" /\ tasks[s].pc = "done"
             /\ background[k].req.agentId = tasks[s].req.agentId
             /\ background[k].intent = tasks[s].intent
             /\ background[k].turn # tasks[s].turn
             /\ background[k].arrived <= tasks[s].repliedAt
             /\ tasks[s].repliedAt - background[k].arrived < MIN_EVOLUTION_INTERVAL_MS) =>
                \A l \in 1..Len(background) : background[l].turn # tasks[s].turn

\* A turn on the intent of an evolution started less than 60 seconds before
\* has published the reply of the model, its conversation being of six
\* messages or more, and has started no evolution.
C34_Witness ==
    \E s \in Slots : \E k \in 1..Len(background) :
        /\ tasks[s].op = "ex" /\ tasks[s].pc = "done" /\ tasks[s].reply = "text"
        /\ background[k].req.agentId = tasks[s].req.agentId
        /\ background[k].intent = tasks[s].intent
        /\ background[k].turn # tasks[s].turn
        /\ tasks[s].repliedAt - background[k].arrived < MIN_EVOLUTION_INTERVAL_MS
        /\ tasks[s].repliedAt > background[k].arrived
        /\ Len(ObjGet(historyStore,
                      ContextKey(tasks[s].req.agentId, tasks[s].req.contextId), <<>>))
                >= MinHistoryForEvolution
        /\ \A l \in 1..Len(background) : background[l].turn # tasks[s].turn

\* Two evolutions of one agent and intent have been started.
C34_TwoStarts ==
    \E k, l \in 1..Len(background) :
        k < l /\ SameEvolutionKey(background[k], background[l])

\* The shared facts after the round k of the evolve call: those the next
\* round began with, or those of the memory when the round is the last.
FactsAfterRound(k) ==
    IF k < Len(eng.call.rounds) THEN eng.call.rounds[k + 1].genContext.sharedFacts
    ELSE eng.call.mem.facts

\* C35: every fact a cycle of evolve adds to the memory is a candidate of
\* the cycle that the verifier found valid, or the initial proposition of a
\* cycle that began with no fact; the verifier is called on the candidates
\* of the cycle, one call for each, and on nothing else.
C35_OnlyVerifiedFactsAdded ==
    \A k \in 1..Len(eng.call.rounds) :
        LET round == eng.call.rounds[k]
            before == round.genContext.sharedFacts
            after == FactsAfterRound(k)
        IN  /\ \A n \in 1..Len(after) :
                    \/ Includes(before, after[n])
                    \/ \E j \in 1..Len(round.verified) :
                            round.verified[j].candidate = after[n] /\ round.verified[j].valid
                    \/ before = <<>> /\ round.initial = <<after[n]>>
            /\ Len(round.initial) <= 1
            /\ Len(round.verified) = Len(round.candidates)
            /\ \A j \in 1..Len(round.verified) :
                    round.verified[j].candidate = round.candidates[j]

\* A cold-start cycle has admitted its initial proposition, which was no
\* candidate, and the one of its two candidates that the verifier found
\* valid; the other is not among the facts.
C35_Witness ==
    \E k \in 1..Len(eng.call.rounds) :
        LET round == eng.call.rounds[k]
        IN  /\ round.initial = <<"p0">>
            /\ Len(round.verified) = 2
            /\ round.verified[1].valid /\ ~round.verified[2].valid
            /\ round.verified[1].candidate # round.verified[2].candidate
            /\ FactsAfterRound(k) = <<"p0", round.verified[1].candidate>>

----------------------------------------------------------------------------
\* The update-memory gate on its own: three requests, so that a skipped request
\* can lie between two others, with the clock advancing between requests.

MaxGateRequests == 3

GateArrive(s) == UMArrive(s, MaxGateRequests)

GateTick == TickBetweenRequests(MaxGateRequests)

GateNext ==
    \/ GateTick
    \/ \E s \in Slots : GateArrive(s)
    \/ \E s \in Slots : UMGetAgent(s)
    \/ \E s \in Slots : UMIntent(s)
    \/ \E s \in Slots : UMMemories(s)
    \/ \E s \in Slots : TaskEvolveCycle(s)
    \/ \E s \in Slots : TaskEvolveFinish(s)
    \/ \E s \in Slots : UMCaring(s)
    \/ \E s \in Slots : UMPersist(s)

SpecUpdateGate == AgentInit /\ [][GateNext]_vars

\* The request of a slot was answered with one of the three rejections that
\* follow the gate: missing fields, unknown agent, unsupported provider.
RejectedAfterGate(t) ==
    /\ t.op = "um" /\ t.pc = "done"
    /\ t.resp.status \in {400, 404}

\* The request arrived less than MIN_UPDATE_INTERVAL_MS after the last request
\* for its agent that was not skipped.
InsideInterval(t) ==
    t.prevServed # 0 /\ (t.arrived - t.prevServed) < MIN_UPDATE_INTERVAL_MS

C36_WitnessProvider ==
    \E s \in Slots :
        /\ RejectedAfterGate(tasks[s])
        /\ tasks[s].resp.error = "Only Gemini models are supported"
        /\ ObjGet(lastUpdateTime, "a1", 0) = tasks[s].arrived

\* C37: a skipped update-memory request does not change the recorded last
\* update time. After a skipped request the agent's last update time is still
\* the arrival of the last request that was not skipped, and a request that
\* arrives at least MIN_UPDATE_INTERVAL_MS after that arrival is not skipped.
C37_SkippedKeepsTime ==
    \A s \in Slots :
        LET t == tasks[s]
        IN  t.op = "um" =>
                /\ t.resp.skipped =>
                        ObjGet(lastUpdateTime, t.req.agentId, 0) = t.prevServed
                /\ ~InsideInterval(t) => ~t.resp.skipped

\* The third request arrives 60 seconds after the first, half a second after a
\* skipped second one, and is not skipped.
C37_Witness ==
    \E s \in Slots :
        LET t == tasks[s]
        IN  /\ t.op = "um" /\ t.pc = "done"
            /\ t.prevServed # 0
            /\ umLog.skipped[t.req.agentId] > t.prevServed
            /\ umLog.skipped[t.req.agentId] < t.arrived
            /\ t.arrived - t.prevServed >= MIN_UPDATE_INTERVAL_MS
            /\ ~t.resp.skipped
            /\ ObjGet(lastUpdateTime, t.req.agentId, 0) = t.arrived

\* C38: in the converse operation, a turn arriving within
\* MIN_INTENT_CLASSIFICATION_INTERVAL_MS of the last classification for the
\* same agent and context performs no classification and uses as its intent the
\* intent which that last classification returned for the conversation.
C38_ReusesClassifiedIntent ==
    \A s \in Slots :
        LET t == tasks[s]
            key == ContextKey(t.req.agentId, t.req.contextId)
        IN  (t.op = "ex" /\ t.cause = "previous-intent") =>
                /\ ~t.classification.called
                /\ t.modelCalls = 0
                /\ ObjHas(umLog.classified, key)
                /\ t.intent = ObjGet(umLog.classified, key, "")

\* The part of C38 that the executor keeps: inside the interval no
\* classification is performed, and the interval was started by one that
\* returned.
C38_NoClassificationInside ==
    \A s \in Slots :
        LET t == tasks[s]
            key == ContextKey(t.req.agentId, t.req.contextId)
        IN  (t.op = "ex" /\ t.cause = "previous-intent") =>
                /\ ~t.classification.called
                /\ ObjHas(umLog.classified, key)

============================================================================
